---- MODULE Spec2Model ----
(***************************************************************************)
(* Model of the lurk_lcsc wire codec: the PktType and LurkError            *)
(* registries, the fourteen per-kind Parser implementations                *)
(* (serialize / deserialize), Packet::read_into, Packet::read_extended and *)
(* Protocol::recv.                                                         *)
(*                                                                         *)
(* Bytes are the integers 0..255.  A Rust str / String is the sequence of  *)
(* its UTF-8 bytes; a Vec<u8> or slice is a sequence of bytes.  Rust       *)
(* offsets are 0-based: At and Slice translate them.                       *)
(***************************************************************************)
EXTENDS Integers, Sequences, FiniteSets, TLC

VARIABLES
    \* ---- the connection, seen from the receiving end ----
    stream,       \* every byte the peer has written to the connection, in order
    closed,       \* the peer has closed its end: a read past the end yields 0 bytes
    pos,          \* number of bytes of stream already consumed by reads
    \* ---- one thread running Protocol::recv in a loop ----
    conn,         \* the Arc<TcpStream> handle recv is called with
    pc,           \* position inside recv
    start,        \* value of pos when the current recv call began
    packet_type,  \* recv's local packet_type (resolved tag)
    buffer,       \* recv's local body buffer
    index,        \* the offset pair handed to read_extended
    length,       \* read_extended's local length
    packet,       \* the Packet handed to the kind's deserialize (NoPacket if none)
    result,       \* what the last recv call returned (NoResult while running)
    \* ---- a direct use of the Parser trait (encode, decode, encode again) ----
    cpc,          \* position of the codec run
    value,        \* the payload given to serialize
    bytes,        \* the frame: serialize's output or the wire frame given
    decoded,      \* deserialize(Packet::new(stream, kind, &bytes[1..]))
    reencoded,    \* serialize(decoded)
    \* ---- threads calling Protocol::send on clones of one handle ----
    serialized,   \* the caller lets only one send call run at a time
    jobs,         \* per thread: the Protocol values it sends, in order
    sent_n,       \* per thread: number of send calls that returned Ok
    spc,          \* per thread: position inside send
    byte_stream,  \* per thread: send's local byte_stream
    written,      \* per thread: bytes of byte_stream the write_all loop has written
    shorts,       \* per thread: short writes met by the current write_all
    send_result,  \* per thread: what the last send call returned
    emitted,      \* per thread, per send call: the bytes it handed to the connection
    owner,        \* for each byte of stream: the <<thread, call>> that wrote it
    received      \* the variants the recv loop has handed on, in order

vars == <<stream, closed, pos, conn, pc, start, packet_type, buffer, index,
          length, packet, result, cpc, value, bytes, decoded, reencoded,
          serialized, jobs, sent_n, spc, byte_stream, written, shorts,
          send_result, emitted, owner, received>>

sendVars == <<serialized, jobs, sent_n, spc, byte_stream, written, shorts,
              send_result, emitted, owner, received>>

recvVars == <<stream, closed, pos, conn, pc, start, packet_type, buffer, index,
              length, packet, result>>

codecVars == <<cpc, value, bytes, decoded, reencoded>>

-----------------------------------------------------------------------------
(* Bounds of the model *)

\* longest variable-length text enumerated byte by byte
MaxText == 2
\* how many trailing bytes a truncated stream may lack
MaxDrop == 2
\* length of the one long text whose length needs the high length byte
LongLen == 256

-----------------------------------------------------------------------------
(* Bytes, slices, integers *)

Byte == 0..255

\* body[i] with Rust's 0-based offset
At(body, i) == body[i + 1]

\* body[a..b] with Rust's 0-based, end-exclusive range
Slice(body, a, b) == SubSeq(body, a + 1, b)

\* body[a..]
SliceFrom(body, a) == SubSeq(body, a + 1, Len(body))

\* n zero bytes: vec![0; n]
Zeros(n) == [i \in 1..n |-> 0]

\* Vec::resize(n, fill): truncates when longer, pads when shorter
resize(v, n, fill) ==
    IF Len(v) >= n THEN SubSeq(v, 1, n)
    ELSE v \o [i \in 1..(n - Len(v)) |-> fill]

\* Vec::truncate(n): keeps the first n elements, no effect when shorter
truncate(v, n) == IF Len(v) > n THEN SubSeq(v, 1, n) ELSE v

\* u16::to_le_bytes
u16_to_le_bytes(n) == <<n % 256, n \div 256>>

\* u16::from_le_bytes([lo, hi])
u16_from_le_bytes(lo, hi) == lo + 256 * hi

\* i16::to_le_bytes: two's complement
i16_to_le_bytes(n) == u16_to_le_bytes((n + 65536) % 65536)

\* i16::from_le_bytes([lo, hi])
i16_from_le_bytes(lo, hi) ==
    LET u == lo + 256 * hi IN IF u >= 32768 THEN u - 65536 ELSE u

\* usize::from_le_bytes([lo, hi, 0, 0, 0, 0, 0, 0])
\* the two length bytes read in the wrong order (big-endian); C9 rules it out
usize_from_be_bytes(lo, hi) == 256 * lo + hi

usize_from_le_bytes(lo, hi) == lo + 256 * hi

\* a cast that keeps the low byte only (`as u8`); C30 rules it out
as_u16_low_byte(n) == n % 256

\* `len() as u16`
as_u16(n) == n % 65536

-----------------------------------------------------------------------------
(* Text: String::from_utf8_lossy and split('\0').take(1).collect() *)

\* U+FFFD REPLACEMENT CHARACTER in UTF-8
REPLACEMENT == <<239, 191, 189>>

\* the byte at 1-based position i, or 0 past the end (safe_get)
safe_get(src, i) == IF i <= Len(src) THEN src[i] ELSE 0

IsCont(b) == b >= 128 /\ b <= 191

\* width announced by a lead byte; 0 for a byte that cannot start a character
utf8_char_width(b) ==
    IF b < 128 THEN 1
    ELSE IF b >= 194 /\ b <= 223 THEN 2
    ELSE IF b >= 224 /\ b <= 239 THEN 3
    ELSE IF b >= 240 /\ b <= 244 THEN 4
    ELSE 0

\* the second byte of a 3- or 4-byte character is in the range its lead allows
SecondOk(lead, b) ==
    \/ lead = 224 /\ b >= 160 /\ b <= 191
    \/ lead >= 225 /\ lead <= 236 /\ IsCont(b)
    \/ lead = 237 /\ b >= 128 /\ b <= 159
    \/ lead >= 238 /\ lead <= 239 /\ IsCont(b)
    \/ lead = 240 /\ b >= 144 /\ b <= 191
    \/ lead >= 241 /\ lead <= 243 /\ IsCont(b)
    \/ lead = 244 /\ b >= 128 /\ b <= 143

\* One step of the chunk scanner at position i: ok says a whole valid
\* character starts there, n is the number of bytes the step covers (the
\* character, or the maximal invalid prefix that one U+FFFD replaces).
utf8_step(src, i) ==
    LET b == src[i]
        w == utf8_char_width(b)
        b2 == safe_get(src, i + 1)
        b3 == safe_get(src, i + 2)
        b4 == safe_get(src, i + 3)
    IN  IF w = 1 THEN [ok |-> TRUE, n |-> 1]
        ELSE IF w = 2 THEN
            IF IsCont(b2) THEN [ok |-> TRUE, n |-> 2] ELSE [ok |-> FALSE, n |-> 1]
        ELSE IF w = 3 THEN
            IF ~SecondOk(b, b2) THEN [ok |-> FALSE, n |-> 1]
            ELSE IF ~IsCont(b3) THEN [ok |-> FALSE, n |-> 2]
            ELSE [ok |-> TRUE, n |-> 3]
        ELSE IF w = 4 THEN
            IF ~SecondOk(b, b2) THEN [ok |-> FALSE, n |-> 1]
            ELSE IF ~IsCont(b3) THEN [ok |-> FALSE, n |-> 2]
            ELSE IF ~IsCont(b4) THEN [ok |-> FALSE, n |-> 3]
            ELSE [ok |-> TRUE, n |-> 4]
        ELSE [ok |-> FALSE, n |-> 1]

RECURSIVE lossy_from(_, _)
lossy_from(src, i) ==
    IF i > Len(src) THEN <<>>
    ELSE LET s == utf8_step(src, i)
         IN  (IF s.ok THEN SubSeq(src, i, i + s.n - 1) ELSE REPLACEMENT)
                 \o lossy_from(src, i + s.n)

\* every byte is ASCII, the case the validation loop skips through unchanged
is_ascii(src) == \A i \in 1..Len(src) : src[i] < 128

\* String::from_utf8_lossy(bytes): the UTF-8 bytes of the repaired string;
\* input that is valid as a whole is returned as it is
from_utf8_lossy(src) == IF is_ascii(src) THEN src ELSE lossy_from(src, 1)

RECURSIVE valid_from(_, _)
valid_from(src, i) ==
    IF i > Len(src) THEN TRUE
    ELSE LET s == utf8_step(src, i) IN s.ok /\ valid_from(src, i + s.n)

\* std::str::from_utf8(bytes).is_ok()
IsUtf8(src) == is_ascii(src) \/ valid_from(src, 1)

\* position of the first NUL of s, or Len(s) + 1 when it has none
FirstNul(s) ==
    IF \E i \in 1..Len(s) : s[i] = 0
    THEN CHOOSE i \in 1..Len(s) : s[i] = 0 /\ \A j \in 1..(i - 1) : s[j] # 0
    ELSE Len(s) + 1

\* s.split('\0').take(1).collect(): the text before the first NUL
split_take1(s) == SubSeq(s, 1, FirstNul(s) - 1)

\* a decoder that only trims the NUL padding at the end of the field; C20 rules
\* it out
name_from_trim(field) ==
    LET used == {i \in 1..Len(field) : field[i] # 0}
        last == IF used = {} THEN 0 ELSE CHOOSE i \in used : \A j \in used : j <= i
    IN  from_utf8_lossy(SubSeq(field, 1, last))

\* String::from_utf8_lossy(field).split('\0').take(1).collect()
name_from(field) == split_take1(from_utf8_lossy(field))

-----------------------------------------------------------------------------
(* TypeRegistry: PktType *)

PktTypes == <<"DEFAULT", "MESSAGE", "CHANGEROOM", "FIGHT", "PVPFIGHT", "LOOT",
              "START", "ERROR", "ACCEPT", "ROOM", "CHARACTER", "GAME", "LEAVE",
              "CONNECTION", "VERSION">>

PktType == {PktTypes[i] : i \in 1..Len(PktTypes)}

\* impl From<PktType> for u8: `val as u8`, the declaration order from 0
PktType_into_u8(val) == (CHOOSE i \in 1..Len(PktTypes) : PktTypes[i] = val) - 1

\* a mapping that wraps a byte around the fifteen kinds; C16 rules it out
PktType_from_u8_wrap(b) == PktTypes[(b % 15) + 1]

\* impl From<u8> for PktType
PktType_from_u8(b) ==
    CASE b = 0 -> "DEFAULT"
      [] b = 1 -> "MESSAGE"
      [] b = 2 -> "CHANGEROOM"
      [] b = 3 -> "FIGHT"
      [] b = 4 -> "PVPFIGHT"
      [] b = 5 -> "LOOT"
      [] b = 6 -> "START"
      [] b = 7 -> "ERROR"
      [] b = 8 -> "ACCEPT"
      [] b = 9 -> "ROOM"
      [] b = 10 -> "CHARACTER"
      [] b = 11 -> "GAME"
      [] b = 12 -> "LEAVE"
      [] b = 13 -> "CONNECTION"
      [] b = 14 -> "VERSION"
      [] OTHER -> "DEFAULT"

-----------------------------------------------------------------------------
(* ErrorRegistry: LurkError *)

LurkErrors == <<"OTHER", "BADROOM", "PLAYEREXISTS", "BADMONSTER", "STATERROR",
                "NOTREADY", "NOTARGET", "NOFIGHT", "NOPLAYERCOMBAT">>

LurkError == {LurkErrors[i] : i \in 1..Len(LurkErrors)}

\* impl From<LurkError> for u8: `e as u8`
LurkError_into_u8(e) == (CHOOSE i \in 1..Len(LurkErrors) : LurkErrors[i] = e) - 1

\* a mapping that clamps a byte to the last code; C17 rules it out
LurkError_from_u8_clamp(b) == LurkErrors[(IF b > 8 THEN 8 ELSE b) + 1]

\* impl From<u8> for LurkError
LurkError_from_u8(b) ==
    CASE b = 0 -> "OTHER"
      [] b = 1 -> "BADROOM"
      [] b = 2 -> "PLAYEREXISTS"
      [] b = 3 -> "BADMONSTER"
      [] b = 4 -> "STATERROR"
      [] b = 5 -> "NOTREADY"
      [] b = 6 -> "NOTARGET"
      [] b = 7 -> "NOFIGHT"
      [] b = 8 -> "NOPLAYERCOMBAT"
      [] OTHER -> "OTHER"

-----------------------------------------------------------------------------
(* CharacterFlags: an 8-bit set, stored as its bits() value *)

ALIVE == 128
BATTLE == 64
MONSTER == 32
STARTED == 16
READY == 8

\* CharacterFlags::all().bits()
AllFlagBits == ALIVE + BATTLE + MONSTER + STARTED + READY

\* bit k (a power of two) of byte b is set
HasBit(b, k) == (b \div k) % 2 = 1

\* a decoder that keeps every bit of the byte; C19 rules it out
from_bits_retain(b) == b

\* CharacterFlags::from_bits_truncate(b): b & all().bits()
from_bits_truncate(b) ==
    (IF HasBit(b, ALIVE) THEN ALIVE ELSE 0)
  + (IF HasBit(b, BATTLE) THEN BATTLE ELSE 0)
  + (IF HasBit(b, MONSTER) THEN MONSTER ELSE 0)
  + (IF HasBit(b, STARTED) THEN STARTED ELSE 0)
  + (IF HasBit(b, READY) THEN READY ELSE 0)

\* a reset preset that is ready at once; C18 rules it out
reset_ready == ALIVE + BATTLE + READY

\* CharacterFlags::reset()
reset == ALIVE + BATTLE

\* CharacterFlags::dead()
dead == BATTLE + READY

\* CharacterFlags::alive()
alive == ALIVE + BATTLE + READY

\* CharacterFlags::is_alive, is_battle, is_started, is_ready: self.contains(bit)
is_alive(f) == HasBit(f, ALIVE)

is_battle(f) == HasBit(f, BATTLE)

is_started(f) == HasBit(f, STARTED)

is_ready(f) == HasBit(f, READY)

-----------------------------------------------------------------------------
(* Packet: the borrowed frame view *)

NoPacket == [stream |-> "none", packet_type |-> "DEFAULT", body |-> <<>>, some |-> FALSE]

\* Packet::new(stream, message_type, bytes).  The deserializers read the kind
\* as packet.packet_type.
Packet_new(s, message_type, bs) ==
    [stream |-> s, packet_type |-> message_type, body |-> bs, some |-> TRUE]

\* Option<Vec<u8>>
None == [is_some |-> FALSE, v |-> <<>>]
Some(x) == [is_some |-> TRUE, v |-> x]

\* Option<Arc<TcpStream>>::None (Some(handle) is the handle itself)
NoAuthor == "none"

-----------------------------------------------------------------------------
(* Parser implementations: serialize returns the bytes written to the      *)
(* writer, deserialize returns the payload struct.                         *)

\* ---- PktMessage ----
\* an encoder that pads the sender of a plain message straight to 32 bytes; C22
\* rules it out
PktMessage_serialize_wide(self) ==
    LET r_bytes == resize(self.recipient, 32, 0)
        s_bytes == IF self.narration THEN resize(self.sender, 30, 0) \o <<0, 1>>
                   ELSE resize(self.sender, 32, 0)
    IN  <<PktType_into_u8(self.packet_type)>> \o u16_to_le_bytes(self.message_len)
            \o r_bytes \o s_bytes \o self.message

PktMessage_serialize(self) ==
    LET r_bytes == resize(self.recipient, 32, 0)
        s_30 == resize(self.sender, 30, 0)
        s_bytes == IF self.narration THEN s_30 \o <<0, 1>> ELSE resize(s_30, 32, 0)
    IN  <<PktType_into_u8(self.packet_type)>> \o u16_to_le_bytes(self.message_len)
            \o r_bytes \o s_bytes \o self.message

\* s_bytes.get(32..34) of the sender field: None unless the range lies within it
sender_marker(s_bytes) == IF Len(s_bytes) >= 34 THEN Some(Slice(s_bytes, 32, 34)) ELSE None

\* PktMessage::server(recipient, message): the sender is "Server"
PktMessage_server(recipient, message) ==
    [packet_type |-> "MESSAGE",
     message_len |-> as_u16(Len(message)),
     recipient |-> recipient,
     sender |-> <<83, 101, 114, 118, 101, 114>>,
     narration |-> FALSE,
     message |-> message]

\* PktMessage::narrator(recipient, message): the sender is "Narrator"
PktMessage_narrator(recipient, message) ==
    [packet_type |-> "MESSAGE",
     message_len |-> as_u16(Len(message)),
     recipient |-> recipient,
     sender |-> <<78, 97, 114, 114, 97, 116, 111, 114>>,
     narration |-> TRUE,
     message |-> message]

PktMessage_deserialize(p) ==
    LET r_bytes == Slice(p.body, 2, 34)
        s_field == Slice(p.body, 34, 66)
        narration == sender_marker(s_field) = Some(<<0, 1>>)
        s_bytes == IF narration THEN truncate(s_field, 32) ELSE s_field
    IN  [packet_type |-> p.packet_type,
         message_len |-> u16_from_le_bytes(At(p.body, 0), At(p.body, 1)),
         recipient |-> name_from(r_bytes),
         sender |-> name_from(s_bytes),
         narration |-> narration,
         message |-> from_utf8_lossy(SliceFrom(p.body, 66))]

\* ---- PktChangeRoom ----
PktChangeRoom_serialize(self) ==
    <<PktType_into_u8(self.packet_type)>> \o u16_to_le_bytes(self.room_number)

PktChangeRoom_deserialize(p) ==
    [packet_type |-> p.packet_type,
     room_number |-> u16_from_le_bytes(At(p.body, 0), At(p.body, 1))]

\* ---- PktFight, PktStart, PktLeave ----
PktFight_default == [packet_type |-> "FIGHT"]
PktStart_default == [packet_type |-> "START"]
PktLeave_default == [packet_type |-> "LEAVE"]

TagOnly_serialize(self) == <<PktType_into_u8(self.packet_type)>>

TagOnly_deserialize(p) == [packet_type |-> p.packet_type]

\* ---- PktPVPFight, PktLoot ----
\* an encoder that pads a short name and emits a long one in full; C23 rules it
\* out
Target_serialize_pad_only(self) ==
    <<PktType_into_u8(self.packet_type)>> \o self.target_name
        \o Zeros(IF Len(self.target_name) < 32 THEN 32 - Len(self.target_name) ELSE 0)

Target_serialize(self) ==
    <<PktType_into_u8(self.packet_type)>> \o resize(self.target_name, 32, 0)

Target_deserialize(p) ==
    [packet_type |-> p.packet_type,
     target_name |-> name_from(Slice(p.body, 0, 32))]

\* ---- PktError ----
PktError_serialize(self) ==
    <<PktType_into_u8(self.packet_type), LurkError_into_u8(self.error)>>
        \o u16_to_le_bytes(self.message_len) \o self.message

\* PktError::new(error, message)
PktError_new(error, message) ==
    [packet_type |-> "ERROR",
     error |-> error,
     message_len |-> as_u16(Len(message)),
     message |-> message]

PktError_deserialize(p) ==
    [packet_type |-> p.packet_type,
     error |-> LurkError_from_u8(At(p.body, 0)),
     message_len |-> u16_from_le_bytes(At(p.body, 1), At(p.body, 2)),
     message |-> name_from(SliceFrom(p.body, 3))]

\* ---- PktAccept ----
PktAccept_new(accept_type) ==
    [packet_type |-> "ACCEPT", accept_type |-> PktType_into_u8(accept_type)]

PktAccept_serialize(self) ==
    <<PktType_into_u8(self.packet_type)>> \o <<self.accept_type>>

\* a decoder that resolves the accepted kind through the registry and stores its
\* byte; C24 rules it out
PktAccept_deserialize_kind(p) ==
    [packet_type |-> p.packet_type,
     accept_type |-> PktType_into_u8(PktType_from_u8(At(p.body, 0)))]

PktAccept_deserialize(p) ==
    [packet_type |-> p.packet_type, accept_type |-> At(p.body, 0)]

\* ---- PktRoom, PktConnection (the same layout) ----
PktRoom_serialize(self) ==
    <<PktType_into_u8(self.packet_type)>> \o u16_to_le_bytes(self.room_number)
        \o resize(self.room_name, 32, 0)
        \o u16_to_le_bytes(self.description_len) \o self.description

PktRoom_deserialize(p) ==
    [packet_type |-> p.packet_type,
     room_number |-> u16_from_le_bytes(At(p.body, 0), At(p.body, 1)),
     room_name |-> name_from(Slice(p.body, 2, 34)),
     description_len |-> u16_from_le_bytes(At(p.body, 34), At(p.body, 35)),
     description |-> from_utf8_lossy(SliceFrom(p.body, 36))]

PktConnection_serialize(self) ==
    <<PktType_into_u8(self.packet_type)>> \o u16_to_le_bytes(self.room_number)
        \o resize(self.room_name, 32, 0)
        \o u16_to_le_bytes(self.description_len) \o self.description

PktConnection_deserialize(p) ==
    [packet_type |-> p.packet_type,
     room_number |-> u16_from_le_bytes(At(p.body, 0), At(p.body, 1)),
     room_name |-> name_from(Slice(p.body, 2, 34)),
     description_len |-> u16_from_le_bytes(At(p.body, 34), At(p.body, 35)),
     description |-> from_utf8_lossy(SliceFrom(p.body, 36))]

\* ---- PktCharacter ----
PktCharacter_serialize(self) ==
    <<PktType_into_u8(self.packet_type)>> \o resize(self.name, 32, 0)
        \o <<self.flags>>
        \o u16_to_le_bytes(self.attack) \o u16_to_le_bytes(self.defense)
        \o u16_to_le_bytes(self.regen) \o i16_to_le_bytes(self.health)
        \o u16_to_le_bytes(self.gold) \o u16_to_le_bytes(self.current_room)
        \o u16_to_le_bytes(self.description_len) \o self.description

\* a decoder that leaves the author unset; C26 rules it out
PktCharacter_deserialize_anon(p) ==
    [author |-> NoAuthor,
     packet_type |-> p.packet_type,
     name |-> name_from(Slice(p.body, 0, 32)),
     flags |-> from_bits_truncate(At(p.body, 32)),
     attack |-> u16_from_le_bytes(At(p.body, 33), At(p.body, 34)),
     defense |-> u16_from_le_bytes(At(p.body, 35), At(p.body, 36)),
     regen |-> u16_from_le_bytes(At(p.body, 37), At(p.body, 38)),
     health |-> i16_from_le_bytes(At(p.body, 39), At(p.body, 40)),
     gold |-> u16_from_le_bytes(At(p.body, 41), At(p.body, 42)),
     current_room |-> u16_from_le_bytes(At(p.body, 43), At(p.body, 44)),
     description_len |-> u16_from_le_bytes(At(p.body, 45), At(p.body, 46)),
     description |-> from_utf8_lossy(SliceFrom(p.body, 47))]

PktCharacter_deserialize(p) ==
    [author |-> p.stream,
     packet_type |-> p.packet_type,
     name |-> name_from(Slice(p.body, 0, 32)),
     flags |-> from_bits_truncate(At(p.body, 32)),
     attack |-> u16_from_le_bytes(At(p.body, 33), At(p.body, 34)),
     defense |-> u16_from_le_bytes(At(p.body, 35), At(p.body, 36)),
     regen |-> u16_from_le_bytes(At(p.body, 37), At(p.body, 38)),
     health |-> i16_from_le_bytes(At(p.body, 39), At(p.body, 40)),
     gold |-> u16_from_le_bytes(At(p.body, 41), At(p.body, 42)),
     current_room |-> u16_from_le_bytes(At(p.body, 43), At(p.body, 44)),
     description_len |-> u16_from_le_bytes(At(p.body, 45), At(p.body, 46)),
     description |-> from_utf8_lossy(SliceFrom(p.body, 47))]

\* a with_defaults_from that leaves the gold of the incoming character; C27
\* rules it out
with_defaults_keep_gold(incoming) ==
    [incoming EXCEPT !.health = 100, !.current_room = 0, !.flags = reset]

\* PktCharacter::with_defaults_from(incoming)
with_defaults_from(incoming) ==
    [incoming EXCEPT !.health = 100, !.gold = 0, !.current_room = 0, !.flags = reset]

\* ---- PktGame ----
PktGame_serialize(self) ==
    <<PktType_into_u8(self.packet_type)>> \o u16_to_le_bytes(self.initial_points)
        \o u16_to_le_bytes(self.stat_limit)
        \o u16_to_le_bytes(self.description_len) \o self.description

PktGame_deserialize(p) ==
    [packet_type |-> p.packet_type,
     initial_points |-> u16_from_le_bytes(At(p.body, 0), At(p.body, 1)),
     stat_limit |-> u16_from_le_bytes(At(p.body, 2), At(p.body, 3)),
     description_len |-> u16_from_le_bytes(At(p.body, 4), At(p.body, 5)),
     description |-> from_utf8_lossy(SliceFrom(p.body, 6))]

\* ---- PktVersion ----
PktVersion_serialize(self) ==
    <<PktType_into_u8(self.packet_type), self.major_rev, self.minor_rev>>
        \o u16_to_le_bytes(self.extensions_len)
        \o (IF self.extensions.is_some THEN self.extensions.v ELSE <<>>)

\* a decoder that takes the extension list from the body; C15 rules it out
PktVersion_deserialize_ext(p) ==
    [packet_type |-> p.packet_type,
     major_rev |-> At(p.body, 0),
     minor_rev |-> At(p.body, 1),
     extensions_len |-> u16_from_le_bytes(At(p.body, 2), At(p.body, 3)),
     extensions |-> Some(SliceFrom(p.body, 4))]

PktVersion_deserialize(p) ==
    [packet_type |-> p.packet_type,
     major_rev |-> At(p.body, 0),
     minor_rev |-> At(p.body, 1),
     extensions_len |-> 0,
     extensions |-> None]

\* ---- the Protocol enum: one variant per payload struct ----
Variants == <<"Message", "ChangeRoom", "Fight", "PVPFight", "Loot", "Start",
              "Error", "Accept", "Room", "Character", "Game", "Leave",
              "Connection", "Version">>

\* the PktType whose tag selects variant v in recv
KindOf(v) == PktTypes[(CHOOSE i \in 1..Len(Variants) : Variants[i] = v) + 1]

\* a recv whose CONNECTION arm builds Protocol::Room; C25 rules it out
VariantOf_room(kind) ==
    IF kind = "CONNECTION" THEN "Room" ELSE Variants[PktType_into_u8(kind)]

\* the variant recv builds for a non-DEFAULT kind
VariantOf(kind) == Variants[PktType_into_u8(kind)]

\* content.serialize(&mut byte_stream) for the payload of variant v
serialize(v, content) ==
    CASE v = "Message" -> PktMessage_serialize(content)
      [] v = "ChangeRoom" -> PktChangeRoom_serialize(content)
      [] v \in {"Fight", "Start", "Leave"} -> TagOnly_serialize(content)
      [] v \in {"PVPFight", "Loot"} -> Target_serialize(content)
      [] v = "Error" -> PktError_serialize(content)
      [] v = "Accept" -> PktAccept_serialize(content)
      [] v = "Room" -> PktRoom_serialize(content)
      [] v = "Character" -> PktCharacter_serialize(content)
      [] v = "Game" -> PktGame_serialize(content)
      [] v = "Connection" -> PktConnection_serialize(content)
      [] v = "Version" -> PktVersion_serialize(content)

\* <Pkt.. as Parser>::deserialize(packet) for the payload struct of variant v
deserialize(v, p) ==
    CASE v = "Message" -> PktMessage_deserialize(p)
      [] v = "ChangeRoom" -> PktChangeRoom_deserialize(p)
      [] v \in {"Fight", "Start", "Leave"} -> TagOnly_deserialize(p)
      [] v \in {"PVPFight", "Loot"} -> Target_deserialize(p)
      [] v = "Error" -> PktError_deserialize(p)
      [] v = "Accept" -> PktAccept_deserialize(p)
      [] v = "Room" -> PktRoom_deserialize(p)
      [] v = "Character" -> PktCharacter_deserialize(p)
      [] v = "Game" -> PktGame_deserialize(p)
      [] v = "Connection" -> PktConnection_deserialize(p)
      [] v = "Version" -> PktVersion_deserialize(p)

-----------------------------------------------------------------------------
(* Inputs: payload values a caller can construct, and frames a peer can    *)
(* put on the wire.                                                        *)

Handles == {"c1", "c2"}

RECURSIVE SeqsUpTo(_, _)
\* every sequence over alphabet A of length at most n
SeqsUpTo(A, n) ==
    IF n = 0 THEN {<<>>}
    ELSE LET shorter == SeqsUpTo(A, n - 1)
         IN  shorter \cup {Append(t, a) : t \in shorter, a \in A}

\* n letters 'A', 'B', ... (no NUL, valid UTF-8)
Letters(n) == [i \in 1..n |-> 65 + (i % 26)]

\* the UTF-8 bytes of U+00E9
EAcute == <<195, 169>>

\* variable-length texts of a payload (valid UTF-8, NUL allowed in a Rust str)
PayloadTexts == SeqsUpTo({0, 65}, MaxText) \cup {EAcute}

\* names of a payload: empty, short, with an embedded NUL, multi-byte, at the
\* declared widths 30 and 32, and one byte over
PayloadNames == {<<>>, <<65>>, <<65, 0, 66>>, EAcute, Letters(30), Letters(32), Letters(33)}

U16s == {0, 1, 258, 65535}

MessagePayloads ==
    {[packet_type |-> "MESSAGE", message_len |-> l, recipient |-> r, sender |-> s,
      narration |-> n, message |-> m] :
        l \in {0, 2}, r \in PayloadNames, s \in PayloadNames, n \in BOOLEAN,
        m \in PayloadTexts}

ChangeRoomPayloads == {[packet_type |-> "CHANGEROOM", room_number |-> r] : r \in U16s}

PVPFightPayloads == {[packet_type |-> "PVPFIGHT", target_name |-> n] : n \in PayloadNames}

LootPayloads == {[packet_type |-> "LOOT", target_name |-> n] : n \in PayloadNames}

ErrorPayloads ==
    {[packet_type |-> "ERROR", error |-> e, message_len |-> l, message |-> m] :
        e \in LurkError, l \in {0, 2}, m \in PayloadTexts}

AcceptPayloads ==
    {PktAccept_new(k) : k \in PktType} \cup
    {[packet_type |-> "ACCEPT", accept_type |-> b] : b \in {15, 255}}

RoomPayloads ==
    {[packet_type |-> "ROOM", room_number |-> r, room_name |-> n,
      description_len |-> l, description |-> d] :
        r \in U16s, n \in PayloadNames, l \in {0, 2}, d \in PayloadTexts}

ConnectionPayloads ==
    {[packet_type |-> "CONNECTION", room_number |-> r, room_name |-> n,
      description_len |-> l, description |-> d] :
        r \in U16s, n \in PayloadNames, l \in {0, 2}, d \in PayloadTexts}

CharacterPayloads ==
    {[author |-> a, packet_type |-> "CHARACTER", name |-> n, flags |-> f,
      attack |-> at, defense |-> 1, regen |-> 65535, health |-> h, gold |-> 258,
      current_room |-> r, description_len |-> l, description |-> d] :
        a \in {NoAuthor, "c2"}, n \in PayloadNames, f \in {reset, dead, AllFlagBits},
        at \in {0, 513}, h \in {-32768, -1, 100}, r \in {0, 258},
        l \in {0, 2}, d \in PayloadTexts}

GamePayloads ==
    {[packet_type |-> "GAME", initial_points |-> i, stat_limit |-> s,
      description_len |-> l, description |-> d] :
        i \in U16s, s \in {0, 65535}, l \in {0, 2}, d \in PayloadTexts}

VersionPayloads ==
    {[packet_type |-> "VERSION", major_rev |-> ma, minor_rev |-> mi,
      extensions_len |-> l, extensions |-> e] :
        ma \in {2, 255}, mi \in {0, 3}, l \in {0, 2},
        e \in {None, Some(<<>>), Some(<<0, 0>>), Some(<<1, 0>>)}}

\* the payload structs of variant v that the model draws from
PayloadsOf(v) ==
    CASE v = "Message" -> MessagePayloads
      [] v = "ChangeRoom" -> ChangeRoomPayloads
      [] v = "Fight" -> {PktFight_default}
      [] v = "PVPFight" -> PVPFightPayloads
      [] v = "Loot" -> LootPayloads
      [] v = "Start" -> {PktStart_default}
      [] v = "Error" -> ErrorPayloads
      [] v = "Accept" -> AcceptPayloads
      [] v = "Room" -> RoomPayloads
      [] v = "Character" -> CharacterPayloads
      [] v = "Game" -> GamePayloads
      [] v = "Leave" -> {PktLeave_default}
      [] v = "Connection" -> ConnectionPayloads
      [] v = "Version" -> VersionPayloads

VariantSet == {Variants[i] : i \in 1..Len(Variants)}

NoValue == [variant |-> "None", content |-> [packet_type |-> "DEFAULT"]]

\* ---- frames on the wire, built field by field ----

\* 32-byte name fields: NUL-padded names, a name with bytes after its first
\* NUL, and a name that is not UTF-8
PaddedNames == {resize(n, 32, 0) : n \in {<<>>, <<65>>, EAcute, Letters(30), Letters(32)}}

DirtyNames == {resize(n, 32, 0) : n \in {<<65, 0, 66>>, <<255>>}}

\* the 32-byte sender field of a narration message: a 30-byte padded name
\* followed by the marker 0x00 0x01
MarkedSenders == {resize(n, 30, 0) \o <<0, 1>> : n \in {<<>>, <<78>>, Letters(30)}}

\* variable-length tails: any bytes, NUL and invalid UTF-8 included
WireTexts == SeqsUpTo({0, 65, 255}, MaxText) \cup {EAcute}

\* the one tail long enough to need the high byte of the length field
LongText == [i \in 1..LongLen |-> 97]

\* values of a length field announced for tail t: the true length and two others
LenFields(t) == {Len(t), 0, 2}

\* a tail with the length announced for it
Tails(texts) == UNION {{[l |-> l, t |-> t] : l \in LenFields(t)} : t \in texts}

MessageWire(names, senders, texts) ==
    {<<1>> \o u16_to_le_bytes(x.l) \o r \o s \o x.t :
        r \in names, s \in senders, x \in Tails(texts)}

ChangeRoomWire == {<<2, lo, hi>> : lo \in {0, 1}, hi \in {0, 2}}

TagOnlyWire == {<<3>>, <<6>>, <<12>>}

PVPFightWire(names) == {<<4>> \o n : n \in names}

LootWire(names) == {<<5>> \o n : n \in names}

ErrorWire(codes, texts) ==
    {<<7, c>> \o u16_to_le_bytes(x.l) \o x.t : c \in codes, x \in Tails(texts)}

AcceptWire == {<<8, b>> : b \in {0, 10, 14, 15, 255}}

RoomWire(tag, names, texts) ==
    {<<tag, 1, 2>> \o n \o u16_to_le_bytes(x.l) \o x.t :
        n \in names, x \in Tails(texts)}

CharacterWire(names, flagBytes, texts) ==
    {<<10>> \o n \o <<f>> \o <<1, 2, 0, 0, 255, 255>> \o hp \o <<2, 1, 0, 0>>
        \o u16_to_le_bytes(x.l) \o x.t :
        n \in names, f \in flagBytes, hp \in {<<100, 0>>, <<255, 255>>},
        x \in Tails(texts)}

GameWire(texts) ==
    {<<11, 100, 0, 255, 255>> \o u16_to_le_bytes(x.l) \o x.t :
        x \in Tails(texts)}

VersionWire ==
    {<<14, 2, mi>> \o u16_to_le_bytes(x.l) \o x.t :
        mi \in {0, 3}, x \in Tails({<<>>, <<0, 0>>, <<1, 0>>, <<1, 0, 65>>})}

\* frames handed to the decoders directly
WireFrames ==
    MessageWire(PaddedNames \cup DirtyNames, PaddedNames \cup DirtyNames \cup MarkedSenders,
                WireTexts)
    \cup ChangeRoomWire \cup TagOnlyWire
    \cup PVPFightWire(PaddedNames \cup DirtyNames) \cup LootWire(PaddedNames \cup DirtyNames)
    \cup ErrorWire({0, 4, 8, 9, 255}, WireTexts) \cup AcceptWire
    \cup RoomWire(9, PaddedNames \cup DirtyNames, WireTexts)
    \cup RoomWire(13, PaddedNames \cup DirtyNames, WireTexts)
    \cup CharacterWire(PaddedNames \cup DirtyNames, {0, 192, 199, 255}, WireTexts)
    \cup GameWire(WireTexts) \cup VersionWire

\* the threads that hold a clone of the sending handle
Senders == {"t1", "t2"}

\* no thread is sending
SendOff ==
    /\ serialized = TRUE
    /\ jobs = [t \in Senders |-> <<>>]
    /\ sent_n = [t \in Senders |-> 0]
    /\ spc = [t \in Senders |-> "stopped"]
    /\ byte_stream = [t \in Senders |-> <<>>]
    /\ written = [t \in Senders |-> 0]
    /\ shorts = [t \in Senders |-> 0]
    /\ send_result = [t \in Senders |-> "none"]
    /\ emitted = [t \in Senders |-> <<>>]
    /\ owner = <<>>
    /\ received = <<>>

-----------------------------------------------------------------------------
(* A direct use of the Parser trait, as the crate's own tests do it:       *)
(* serialize a payload, build Packet::new(&stream, kind, &bytes[1..]),     *)
(* deserialize it, and serialize the result again.                         *)

CodecInit ==
    /\ conn \in Handles
    /\ \/ /\ cpc = "start"
          /\ \E v \in VariantSet : \E c \in PayloadsOf(v) :
                 value = [variant |-> v, content |-> c]
          /\ bytes = <<>>
       \/ /\ cpc = "encoded"
          /\ value = NoValue
          /\ bytes \in WireFrames
    /\ decoded = NoValue
    /\ reencoded = <<>>
    /\ stream = <<>> /\ closed = FALSE /\ pos = 0 /\ pc = "off" /\ start = 0
    /\ packet_type = "DEFAULT" /\ buffer = <<>> /\ index = <<0, 0>> /\ length = 0
    /\ packet = NoPacket
    /\ result = [ok |-> FALSE, err |-> "none", variant |-> "None", author |-> NoAuthor,
                 content |-> [packet_type |-> "DEFAULT"]]
    /\ SendOff

\* content.serialize(&mut buffer)
CodecSerialize ==
    /\ cpc = "start"
    /\ bytes' = serialize(value.variant, value.content)
    /\ cpc' = "encoded"
    /\ UNCHANGED <<value, decoded, reencoded>>
    /\ UNCHANGED recvVars
    /\ UNCHANGED sendVars

\* the variant whose decoder the frame in bytes is handed to
FrameVariant == IF value = NoValue THEN VariantOf(PktType_from_u8(bytes[1])) ELSE value.variant

\* the kind handed to Packet::new
FrameKind == IF value = NoValue THEN PktType_from_u8(bytes[1]) ELSE KindOf(value.variant)

\* Pkt..::deserialize(Packet::new(&stream, type_byte, &bytes[1..]))
CodecDeserialize ==
    /\ cpc = "encoded"
    /\ decoded' = [variant |-> FrameVariant,
                   content |-> deserialize(FrameVariant,
                                           Packet_new(conn, FrameKind, SliceFrom(bytes, 1)))]
    /\ cpc' = "decoded"
    /\ UNCHANGED <<value, bytes, reencoded>>
    /\ UNCHANGED recvVars
    /\ UNCHANGED sendVars

\* message.serialize(&mut buffer) on the decoded payload
CodecReserialize ==
    /\ cpc = "decoded"
    /\ reencoded' = serialize(decoded.variant, decoded.content)
    /\ cpc' = "reencoded"
    /\ UNCHANGED <<value, bytes, decoded>>
    /\ UNCHANGED recvVars
    /\ UNCHANGED sendVars

\* PktCharacter::with_defaults_from(&incoming): a new value, the argument is
\* only borrowed
CodecWithDefaults ==
    /\ cpc = "start"
    /\ value.variant = "Character"
    /\ decoded' = [variant |-> "Character", content |-> with_defaults_from(value.content)]
    /\ cpc' = "defaults"
    /\ UNCHANGED <<value, bytes, reencoded>>
    /\ UNCHANGED recvVars
    /\ UNCHANGED sendVars

CodecNext == CodecSerialize \/ CodecDeserialize \/ CodecReserialize \/ CodecWithDefaults

SpecCodec == CodecInit /\ [][CodecNext]_vars

-----------------------------------------------------------------------------
(* The registries and the flag presets used on their own: a byte turned    *)
(* into a PktType or a LurkError and back, a kind or a code turned into    *)
(* its byte and back, and the predicates asked of a preset.                *)

Presets == {<<"reset", reset>>, <<"dead", dead>>, <<"alive", alive>>}

RegistryInit ==
    /\ conn = "c1"
    /\ \/ /\ cpc = "byte"
          /\ value = NoValue
          /\ \E b \in Byte : bytes = <<b>>
       \/ /\ cpc = "kind"
          /\ \E k \in PktType : value = [variant |-> "PktType", content |-> [packet_type |-> k]]
          /\ bytes = <<>>
       \/ /\ cpc = "code"
          /\ \E e \in LurkError : value = [variant |-> "LurkError", content |-> [error |-> e]]
          /\ bytes = <<>>
       \/ /\ cpc = "frame"
          /\ value = NoValue
          /\ \E c \in Byte : bytes = <<7, c, 1, 0, 65>>
       \/ /\ cpc = "text"
          /\ \E n \in {0, 1, 255, 256, 65535, 65536, 65537} : bytes = [i \in 1..n |-> 97]
          /\ \E r \in {<<>>, <<82>>} : \E e \in {"OTHER", "NOTREADY"} :
                 value = [variant |-> "Text", content |-> [recipient |-> r, error |-> e]]
       \/ /\ cpc = "preset"
          /\ \E p \in Presets : value = [variant |-> p[1], content |-> [flags |-> p[2]]]
          /\ bytes = <<>>
    /\ decoded = NoValue
    /\ reencoded = <<>>
    /\ stream = <<>> /\ closed = FALSE /\ pos = 0 /\ pc = "off" /\ start = 0
    /\ packet_type = "DEFAULT" /\ buffer = <<>> /\ index = <<0, 0>> /\ length = 0
    /\ packet = NoPacket
    /\ result = [ok |-> FALSE, err |-> "none", variant |-> "None", author |-> NoAuthor,
                 content |-> [packet_type |-> "DEFAULT"]]
    /\ SendOff

\* PktType::from(b), and u8::from of the result
PktTypeFromByte ==
    /\ cpc = "byte"
    /\ decoded' = [variant |-> "PktType",
                   content |-> [packet_type |-> PktType_from_u8(bytes[1])]]
    /\ reencoded' = <<PktType_into_u8(PktType_from_u8(bytes[1]))>>
    /\ cpc' = "pkt_type"
    /\ UNCHANGED <<value, bytes>>
    /\ UNCHANGED recvVars
    /\ UNCHANGED sendVars

\* LurkError::from(b), and u8::from of the result
LurkErrorFromByte ==
    /\ cpc = "byte"
    /\ decoded' = [variant |-> "LurkError",
                   content |-> [error |-> LurkError_from_u8(bytes[1])]]
    /\ reencoded' = <<LurkError_into_u8(LurkError_from_u8(bytes[1]))>>
    /\ cpc' = "lurk_error"
    /\ UNCHANGED <<value, bytes>>
    /\ UNCHANGED recvVars
    /\ UNCHANGED sendVars

\* u8::from(kind), and PktType::from of the result
PktTypeIntoByte ==
    /\ cpc = "kind"
    /\ bytes' = <<PktType_into_u8(value.content.packet_type)>>
    /\ decoded' = [variant |-> "PktType",
                   content |-> [packet_type |->
                       PktType_from_u8(PktType_into_u8(value.content.packet_type))]]
    /\ cpc' = "kind_back"
    /\ UNCHANGED <<value, reencoded>>
    /\ UNCHANGED recvVars
    /\ UNCHANGED sendVars

\* u8::from(code), and LurkError::from of the result
LurkErrorIntoByte ==
    /\ cpc = "code"
    /\ bytes' = <<LurkError_into_u8(value.content.error)>>
    /\ decoded' = [variant |-> "LurkError",
                   content |-> [error |->
                       LurkError_from_u8(LurkError_into_u8(value.content.error))]]
    /\ cpc' = "code_back"
    /\ UNCHANGED <<value, reencoded>>
    /\ UNCHANGED recvVars
    /\ UNCHANGED sendVars

\* PktError::deserialize of an Error frame
ErrorFrameDecode ==
    /\ cpc = "frame"
    /\ decoded' = [variant |-> "Error",
                   content |-> PktError_deserialize(
                                   Packet_new(conn, PktType_from_u8(bytes[1]),
                                              SliceFrom(bytes, 1)))]
    /\ cpc' = "error_decoded"
    /\ UNCHANGED <<value, bytes, reencoded>>
    /\ UNCHANGED recvVars
    /\ UNCHANGED sendVars

\* the four predicates asked of a preset
FlagsPredicates ==
    /\ cpc = "preset"
    /\ decoded' = [variant |-> value.variant,
                   content |-> [is_alive |-> is_alive(value.content.flags),
                                is_battle |-> is_battle(value.content.flags),
                                is_started |-> is_started(value.content.flags),
                                is_ready |-> is_ready(value.content.flags)]]
    /\ cpc' = "asked"
    /\ UNCHANGED <<value, bytes, reencoded>>
    /\ UNCHANGED recvVars
    /\ UNCHANGED sendVars

\* PktAccept::new(kind), and its serialize
AcceptNew ==
    /\ cpc = "kind"
    /\ decoded' = [variant |-> "Accept",
                   content |-> PktAccept_new(value.content.packet_type)]
    /\ bytes' = PktAccept_serialize(PktAccept_new(value.content.packet_type))
    /\ cpc' = "accept_new"
    /\ UNCHANGED <<value, reencoded>>
    /\ UNCHANGED recvVars
    /\ UNCHANGED sendVars

\* PktAccept::deserialize(Packet::new(&stream, PktType::ACCEPT, &[b])), and
\* serialize of the result
AcceptFrameDecode ==
    /\ cpc = "byte"
    /\ LET message == PktAccept_deserialize(Packet_new(conn, "ACCEPT", <<bytes[1]>>))
       IN  /\ decoded' = [variant |-> "Accept", content |-> message]
           /\ reencoded' = PktAccept_serialize(message)
    /\ cpc' = "accept_decoded"
    /\ UNCHANGED <<value, bytes>>
    /\ UNCHANGED recvVars
    /\ UNCHANGED sendVars

\* PktMessage::server(recipient, message), and its serialize
MessageServer ==
    /\ cpc = "text"
    /\ LET message == PktMessage_server(value.content.recipient, bytes)
       IN  /\ decoded' = [variant |-> "Message", content |-> message]
           /\ reencoded' = PktMessage_serialize(message)
    /\ cpc' = "server"
    /\ UNCHANGED <<value, bytes>>
    /\ UNCHANGED recvVars
    /\ UNCHANGED sendVars

\* PktMessage::narrator(recipient, message), and its serialize
MessageNarrator ==
    /\ cpc = "text"
    /\ LET message == PktMessage_narrator(value.content.recipient, bytes)
       IN  /\ decoded' = [variant |-> "Message", content |-> message]
           /\ reencoded' = PktMessage_serialize(message)
    /\ cpc' = "narrator"
    /\ UNCHANGED <<value, bytes>>
    /\ UNCHANGED recvVars
    /\ UNCHANGED sendVars

\* PktError::new(error, message), and its serialize
ErrorNew ==
    /\ cpc = "text"
    /\ LET message == PktError_new(value.content.error, bytes)
       IN  /\ decoded' = [variant |-> "Error", content |-> message]
           /\ reencoded' = PktError_serialize(message)
    /\ cpc' = "error_new"
    /\ UNCHANGED <<value, bytes>>
    /\ UNCHANGED recvVars
    /\ UNCHANGED sendVars

RegistryNext ==
    \/ PktTypeFromByte
    \/ LurkErrorFromByte
    \/ PktTypeIntoByte
    \/ LurkErrorIntoByte
    \/ ErrorFrameDecode
    \/ FlagsPredicates
    \/ AcceptNew
    \/ AcceptFrameDecode
    \/ MessageServer
    \/ MessageNarrator
    \/ ErrorNew

SpecRegistry == RegistryInit /\ [][RegistryNext]_vars

-----------------------------------------------------------------------------
(* Protocol::recv, one thread per connection, called in a loop.            *)
(* TcpStream::read blocks until a byte is there or the peer has closed;    *)
(* read_exact blocks until the whole buffer is filled and fails on EOF.    *)

\* std::io::Result<Protocol>
NoResult == [ok |-> FALSE, err |-> "none", variant |-> "None", author |-> NoAuthor,
             content |-> [packet_type |-> "DEFAULT"]]

\* Ok(Protocol::V(stream.clone(), content))
Ok(v, author, content) ==
    [ok |-> TRUE, err |-> "none", variant |-> v, author |-> author, content |-> content]

\* Err(Error::new(kind, ..))
Err(kind) == [NoResult EXCEPT !.err = kind]

\* kinds of io::Error a TcpStream read can fail with (none is Unsupported)
OsErrorKinds == {"ConnectionReset", "TimedOut"}

\* the kinds recv answers without reading a body
TagOnlyKinds == {"FIGHT", "START", "LEAVE"}

\* a recv that reads a Version frame as a fixed body of four bytes, the part its
\* decoder uses; C28 rules it out
FixedKinds_version == {"CHANGEROOM", "PVPFIGHT", "LOOT", "ACCEPT", "VERSION"}

\* the kinds recv reads with Packet::read_into
FixedKinds == {"CHANGEROOM", "PVPFIGHT", "LOOT", "ACCEPT"}

\* the kinds recv reads with Packet::read_extended
ExtendedKinds == {"MESSAGE", "ERROR", "ROOM", "CHARACTER", "GAME", "CONNECTION", "VERSION"}

\* the body length under which every index expression of the variant's
\* deserialize is in range: body[i] needs i + 1, body[a..b] needs b, body[a..]
\* needs a
reads_below(v) ==
    CASE v = "Message" -> 66
      [] v = "ChangeRoom" -> 2
      [] v \in {"PVPFight", "Loot"} -> 32
      [] v = "Error" -> 3
      [] v = "Accept" -> 1
      [] v \in {"Room", "Connection"} -> 36
      [] v = "Character" -> 47
      [] v = "Game" -> 6
      [] v = "Version" -> 2
      [] OTHER -> 0

\* a recv that allocates one byte for the body of a ChangeRoom frame; C14 rules
\* it out
buffer_len_short(kind) ==
    CASE kind = "MESSAGE" -> 66
      [] kind = "CHANGEROOM" -> 1
      [] kind = "PVPFIGHT" -> 32
      [] kind = "LOOT" -> 32
      [] kind = "ERROR" -> 3
      [] kind = "ACCEPT" -> 1
      [] kind = "ROOM" -> 36
      [] kind = "CHARACTER" -> 47
      [] kind = "GAME" -> 6
      [] kind = "CONNECTION" -> 36
      [] kind = "VERSION" -> 4
      [] OTHER -> 0

\* a recv that reads one byte too many into the prefix of a Version frame; C13
\* rules it out
buffer_len_long(kind) ==
    CASE kind = "MESSAGE" -> 66
      [] kind = "CHANGEROOM" -> 2
      [] kind = "PVPFIGHT" -> 32
      [] kind = "LOOT" -> 32
      [] kind = "ERROR" -> 3
      [] kind = "ACCEPT" -> 1
      [] kind = "ROOM" -> 36
      [] kind = "CHARACTER" -> 47
      [] kind = "GAME" -> 6
      [] kind = "CONNECTION" -> 36
      [] kind = "VERSION" -> 5
      [] OTHER -> 0

\* size of the buffer recv allocates for the kind: vec![0; n]
buffer_len(kind) ==
    CASE kind = "MESSAGE" -> 66
      [] kind = "CHANGEROOM" -> 2
      [] kind = "PVPFIGHT" -> 32
      [] kind = "LOOT" -> 32
      [] kind = "ERROR" -> 3
      [] kind = "ACCEPT" -> 1
      [] kind = "ROOM" -> 36
      [] kind = "CHARACTER" -> 47
      [] kind = "GAME" -> 6
      [] kind = "CONNECTION" -> 36
      [] kind = "VERSION" -> 4
      [] OTHER -> 0

\* an offset table whose Character entry is one byte early; C8 rules it out
extended_index_early(kind) ==
    CASE kind = "MESSAGE" -> <<0, 1>>
      [] kind = "ERROR" -> <<1, 2>>
      [] kind = "ROOM" -> <<34, 35>>
      [] kind = "CHARACTER" -> <<44, 45>>
      [] kind = "GAME" -> <<4, 5>>
      [] kind = "CONNECTION" -> <<34, 35>>
      [] kind = "VERSION" -> <<2, 3>>
      [] OTHER -> <<0, 0>>

\* the offset pair recv hands to read_extended for the kind
extended_index(kind) ==
    CASE kind = "MESSAGE" -> <<0, 1>>
      [] kind = "ERROR" -> <<1, 2>>
      [] kind = "ROOM" -> <<34, 35>>
      [] kind = "CHARACTER" -> <<45, 46>>
      [] kind = "GAME" -> <<4, 5>>
      [] kind = "CONNECTION" -> <<34, 35>>
      [] kind = "VERSION" -> <<2, 3>>
      [] OTHER -> <<0, 0>>

\* a recv that answers every tag-only kind with a Fight payload; C10 rules it out
default_payload_fight(kind) == PktFight_default

\* the payload recv builds for a tag-only kind: Pkt..::default()
default_payload(kind) ==
    CASE kind = "FIGHT" -> PktFight_default
      [] kind = "START" -> PktStart_default
      [] kind = "LEAVE" -> PktLeave_default

\* bytes written by the peer and not yet consumed
Available == Len(stream) - pos

\* a recv that reports an unknown tag as a closed connection; C5 rules it out
after_tag_default_is_eof(bytes_read, b) ==
    LET kind == PktType_from_u8(b)
    IN  IF bytes_read # 1 THEN [pc |-> "done", result |-> Err("UnexpectedEof")]
        ELSE IF kind = "DEFAULT" THEN [pc |-> "done", result |-> Err("UnexpectedEof")]
        ELSE IF kind \in TagOnlyKinds
            THEN [pc |-> "done", result |-> Ok(VariantOf(kind), conn, default_payload(kind))]
        ELSE IF kind \in FixedKinds THEN [pc |-> "read_into", result |-> NoResult]
        ELSE [pc |-> "read_extended", result |-> NoResult]

\* a recv that matches on the tag before it looks at bytes_read; C6 rules it out
after_tag_match_first(bytes_read, b) ==
    LET kind == PktType_from_u8(b)
    IN  IF kind = "DEFAULT" THEN [pc |-> "done", result |-> Err("Unsupported")]
        ELSE IF bytes_read # 1 THEN [pc |-> "done", result |-> Err("UnexpectedEof")]
        ELSE IF kind \in TagOnlyKinds
            THEN [pc |-> "done", result |-> Ok(VariantOf(kind), conn, default_payload(kind))]
        ELSE IF kind \in FixedKinds THEN [pc |-> "read_into", result |-> NoResult]
        ELSE [pc |-> "read_extended", result |-> NoResult]

\* a read that returns what is there and leaves the rest of the zeroed buffer
\* (Read::read in place of read_exact); C7 rules it out
read_partial(n) ==
    IF Available >= n
    THEN [ok |-> TRUE, buf |-> SubSeq(stream, pos + 1, pos + n), pos |-> pos + n]
    ELSE [ok |-> TRUE,
          buf |-> SubSeq(stream, pos + 1, Len(stream)) \o Zeros(n - Available),
          pos |-> Len(stream)]

\* recv after its first read returned Ok(bytes_read), with the tag buffer
\* holding byte b: what recv returns at once, or the read it goes on to
after_tag(bytes_read, b) ==
    LET kind == PktType_from_u8(b)
    IN  IF bytes_read # 1 THEN [pc |-> "done", result |-> Err("UnexpectedEof")]
        ELSE IF kind = "DEFAULT" THEN [pc |-> "done", result |-> Err("Unsupported")]
        ELSE IF kind \in TagOnlyKinds
            THEN [pc |-> "done", result |-> Ok(VariantOf(kind), conn, default_payload(kind))]
        ELSE IF kind \in FixedKinds THEN [pc |-> "read_into", result |-> NoResult]
        ELSE [pc |-> "read_extended", result |-> NoResult]

\* let bytes_read = stream.read(&mut buffer)?; let packet_type = buffer[0].into();
\* then the bytes_read check and the match on packet_type
RecvReadTag ==
    /\ pc = "recv"
    /\ Available >= 1 \/ closed
    /\ LET bytes_read == IF Available >= 1 THEN 1 ELSE 0
           b == IF bytes_read = 1 THEN stream[pos + 1] ELSE 0
           next == after_tag(bytes_read, b)
       IN  /\ pos' = pos + bytes_read
           /\ packet_type' = PktType_from_u8(b)
           /\ pc' = next.pc
           /\ result' = next.result
           /\ buffer' = Zeros(buffer_len(PktType_from_u8(b)))
           /\ index' = extended_index(PktType_from_u8(b))
    /\ UNCHANGED <<stream, closed, conn, start, length, packet>>
    /\ UNCHANGED codecVars
    /\ UNCHANGED sendVars

\* the first read fails: `?` hands the io::Error to the caller as it is
RecvReadTagError ==
    /\ pc = "recv"
    /\ ~closed
    /\ \E kind \in OsErrorKinds : result' = Err(kind)
    /\ pc' = "done"
    /\ UNCHANGED <<stream, closed, pos, conn, start, packet_type, buffer, index, length, packet>>
    /\ UNCHANGED codecVars
    /\ UNCHANGED sendVars

\* the outcome of stream.read_exact(buf) for a buffer of n bytes, once it
\* returns: the buffer filled and n bytes consumed, or UnexpectedEof with the
\* bytes that were there consumed
read_exact(n) ==
    IF Available >= n
    THEN [ok |-> TRUE, buf |-> SubSeq(stream, pos + 1, pos + n), pos |-> pos + n]
    ELSE [ok |-> FALSE,
          buf |-> SubSeq(stream, pos + 1, Len(stream)) \o Zeros(n - Available),
          pos |-> Len(stream)]

\* Packet::read_into(stream, packet_type, &mut buffer)? and the kind's deserialize
RecvReadInto ==
    /\ pc = "read_into"
    /\ Available >= Len(buffer) \/ closed
    /\ LET r == read_exact(Len(buffer))
           pkt == Packet_new(conn, packet_type, r.buf)
       IN  /\ pos' = r.pos
           /\ buffer' = r.buf
           /\ IF r.ok
              THEN /\ packet' = pkt
                   /\ result' = Ok(VariantOf(packet_type), conn,
                                   deserialize(VariantOf(packet_type), pkt))
              ELSE /\ packet' = packet
                   /\ result' = Err("UnexpectedEof")
    /\ pc' = "done"
    /\ UNCHANGED <<stream, closed, conn, start, packet_type, index, length>>
    /\ UNCHANGED codecVars
    /\ UNCHANGED sendVars

\* Packet::read_extended up to the length: read_exact(buffer), then
\* length = usize::from_le_bytes([buffer[index.0], buffer[index.1], 0, ..])
RecvReadPrefix ==
    /\ pc = "read_extended"
    /\ Available >= Len(buffer) \/ closed
    /\ LET r == read_exact(Len(buffer))
       IN  /\ pos' = r.pos
           /\ buffer' = r.buf
           /\ IF r.ok
              THEN /\ length' = usize_from_le_bytes(At(r.buf, index[1]), At(r.buf, index[2]))
                   /\ pc' = "read_desc"
                   /\ result' = result
              ELSE /\ length' = length
                   /\ pc' = "done"
                   /\ result' = Err("UnexpectedEof")
    /\ UNCHANGED <<stream, closed, conn, start, packet_type, index, packet>>
    /\ UNCHANGED codecVars
    /\ UNCHANGED sendVars

\* the rest of Packet::read_extended: read_exact(&mut desc),
\* buffer.extend_from_slice(&desc), Packet::new, and the kind's deserialize
RecvReadDesc ==
    /\ pc = "read_desc"
    /\ Available >= length \/ closed
    /\ LET r == read_exact(length)
           pkt == Packet_new(conn, packet_type, buffer \o r.buf)
       IN  /\ pos' = r.pos
           /\ IF r.ok
              THEN /\ buffer' = buffer \o r.buf
                   /\ packet' = pkt
                   /\ result' = Ok(VariantOf(packet_type), conn,
                                   deserialize(VariantOf(packet_type), pkt))
              ELSE /\ buffer' = buffer
                   /\ packet' = packet
                   /\ result' = Err("UnexpectedEof")
    /\ pc' = "done"
    /\ UNCHANGED <<stream, closed, conn, start, packet_type, index, length>>
    /\ UNCHANGED codecVars
    /\ UNCHANGED sendVars

\* a read_exact of the body fails with an io::Error of the transport:
\* map_err turns it into UnexpectedEof
RecvReadBodyError ==
    /\ pc \in {"read_into", "read_extended", "read_desc"}
    /\ ~closed
    /\ result' = Err("UnexpectedEof")
    /\ pc' = "done"
    /\ UNCHANGED <<stream, closed, pos, conn, start, packet_type, buffer, index, length, packet>>
    /\ UNCHANGED codecVars
    /\ UNCHANGED sendVars

\* the caller's loop calls recv again after a payload or an unsupported tag
RecvAgain ==
    /\ pc = "done"
    /\ result.ok \/ result.err = "Unsupported"
    /\ pc' = "recv"
    /\ start' = pos
    /\ packet_type' = "DEFAULT"
    /\ buffer' = <<>>
    /\ index' = <<0, 0>>
    /\ length' = 0
    /\ packet' = NoPacket
    /\ result' = NoResult
    /\ UNCHANGED <<stream, closed, pos, conn>>
    /\ UNCHANGED codecVars
    /\ UNCHANGED sendVars

\* the peer closes its end of the connection
PeerClose ==
    /\ ~closed
    /\ closed' = TRUE
    /\ UNCHANGED <<stream, pos, conn, pc, start, packet_type, buffer, index, length,
                   packet, result>>
    /\ UNCHANGED codecVars
    /\ UNCHANGED sendVars

\* ---- what the peer has written: whole frames, maybe followed by another
\* frame, maybe cut short ----

OneName == {resize(<<65>>, 32, 0)}

RecvFrames ==
    MessageWire(OneName, OneName \cup {resize(<<78>>, 30, 0) \o <<0, 1>>}, WireTexts)
    \cup ChangeRoomWire \cup TagOnlyWire \cup {<<0>>, <<15>>, <<255>>}
    \cup PVPFightWire(OneName \cup DirtyNames) \cup LootWire(OneName)
    \cup ErrorWire({4, 9}, WireTexts \cup {LongText}) \cup AcceptWire
    \cup RoomWire(9, OneName, WireTexts) \cup RoomWire(13, OneName, WireTexts)
    \cup CharacterWire(OneName, {199}, WireTexts)
    \cup GameWire(WireTexts \cup {LongText}) \cup VersionWire

\* what may follow a frame on the stream
Trailers == {<<>>, <<12>>}

\* s, and s without its last 1..MaxDrop bytes
Cuts(s) ==
    {SubSeq(s, 1, Len(s) - d) : d \in 0..(IF Len(s) < MaxDrop THEN Len(s) ELSE MaxDrop)}

Streams == UNION {Cuts(f \o t) : f \in RecvFrames, t \in Trailers}

Init ==
    /\ stream \in Streams
    /\ closed = FALSE
    /\ pos = 0
    /\ conn \in Handles
    /\ pc = "recv"
    /\ start = 0
    /\ packet_type = "DEFAULT"
    /\ buffer = <<>>
    /\ index = <<0, 0>>
    /\ length = 0
    /\ packet = NoPacket
    /\ result = NoResult
    /\ cpc = "off" /\ value = NoValue /\ bytes = <<>> /\ decoded = NoValue
    /\ reencoded = <<>>
    /\ SendOff

Next ==
    \/ RecvReadTag
    \/ RecvReadTagError
    \/ RecvReadInto
    \/ RecvReadPrefix
    \/ RecvReadDesc
    \/ RecvReadBodyError
    \/ RecvAgain
    \/ PeerClose

Spec == Init /\ [][Next]_vars

-----------------------------------------------------------------------------
(* Protocol::send on one end of a connection, called by threads that hold  *)
(* clones of the handle, and a thread that calls Protocol::recv in a loop  *)
(* on the other end.  Reads block until the bytes are there or the         *)
(* connection has ended.                                                   *)

\* short writes one write_all call can meet before a write takes the rest
MaxShort == 1

\* the Protocol values the sending threads draw from; the Game value announces
\* a description length that is not the length of its description
SendPayloads ==
    {[variant |-> "Fight", content |-> PktFight_default],
     [variant |-> "ChangeRoom",
      content |-> [packet_type |-> "CHANGEROOM", room_number |-> 258]],
     [variant |-> "Error",
      content |-> [packet_type |-> "ERROR", error |-> "NOTREADY", message_len |-> 1,
                   message |-> <<65>>]],
     [variant |-> "Version",
      content |-> [packet_type |-> "VERSION", major_rev |-> 2, minor_rev |-> 3,
                   extensions_len |-> 2, extensions |-> Some(<<0, 0>>)]],
     [variant |-> "Loot",
      content |-> [packet_type |-> "LOOT", target_name |-> <<65>>]],
     [variant |-> "Game",
      content |-> [packet_type |-> "GAME", initial_points |-> 100, stat_limit |-> 65535,
                   description_len |-> 0, description |-> <<3>>]]}

\* the payloads among them that are one to five bytes on the wire
ShortPayloads == {x \in SendPayloads : x.variant \in {"Fight", "ChangeRoom", "Error"}}

\* what the two threads are given to send
JobLists ==
    {[t \in Senders |-> IF t = "t1" THEN a ELSE b] :
        a \in {<<x>> : x \in SendPayloads}
               \cup {<<x, y>> : x \in SendPayloads, y \in ShortPayloads},
        b \in {<<>>} \cup {<<x>> : x \in ShortPayloads}}

\* a write loop that starts over from the first byte after a short write; C11
\* rules it out
write_rest_whole(buf, n) == buf

\* the slice write_all hands to its next write: &buf[n..]
write_rest(buf, n) == SubSeq(buf, n + 1, Len(buf))

\* the byte counts a write of rem bytes can return: all of them, or fewer while
\* the call has met less than MaxShort short writes
write_sizes(rem, short) ==
    {rem} \cup (IF short < MaxShort THEN {n \in {1, rem \div 2} : n >= 1 /\ n < rem}
                ELSE {})

\* a caller that never holds a send call back; C12 rules it out for the
\* serialized case
may_send_always(t) == TRUE

\* whether the caller lets thread t enter send: always, unless the caller
\* serializes its send calls and another call is running
may_send(t) == serialized => \A u \in Senders \ {t} : spc[u] # "write"

\* let mut byte_stream = Vec::new(); content.serialize(&mut byte_stream)?
SendSerialize(t) ==
    /\ spc[t] = "idle"
    /\ ~closed
    /\ sent_n[t] < Len(jobs[t])
    /\ may_send(t)
    /\ LET job == jobs[t][sent_n[t] + 1]
       IN  byte_stream' = [byte_stream EXCEPT ![t] = serialize(job.variant, job.content)]
    /\ spc' = [spc EXCEPT ![t] = "write"]
    /\ written' = [written EXCEPT ![t] = 0]
    /\ shorts' = [shorts EXCEPT ![t] = 0]
    /\ send_result' = [send_result EXCEPT ![t] = "none"]
    /\ emitted' = [emitted EXCEPT ![t] = Append(@, <<>>)]
    /\ UNCHANGED <<serialized, jobs, sent_n, owner, received>>
    /\ UNCHANGED recvVars
    /\ UNCHANGED codecVars

\* author.write_all(&byte_stream)?: one write of the loop; send returns Ok(())
\* when nothing is left to write
SendWrite(t) ==
    /\ spc[t] = "write"
    /\ ~closed
    /\ \E n \in write_sizes(Len(byte_stream[t]) - written[t], shorts[t]) :
           LET rest == write_rest(byte_stream[t], written[t])
               chunk == SubSeq(rest, 1, n)
               finished == n = Len(rest)
           IN  /\ stream' = stream \o chunk
               /\ owner' = owner \o [i \in 1..n |-> <<t, sent_n[t] + 1>>]
               /\ emitted' = [emitted EXCEPT ![t][Len(emitted[t])] = @ \o chunk]
               /\ written' = [written EXCEPT ![t] = @ + n]
               /\ shorts' = [shorts EXCEPT ![t] = IF finished THEN @ ELSE @ + 1]
               /\ IF finished
                  THEN /\ sent_n' = [sent_n EXCEPT ![t] = @ + 1]
                       /\ send_result' = [send_result EXCEPT ![t] = "ok"]
                       /\ spc' = [spc EXCEPT ![t] =
                                     IF sent_n[t] + 1 < Len(jobs[t]) THEN "idle"
                                     ELSE "stopped"]
                  ELSE UNCHANGED <<sent_n, send_result, spc>>
    /\ UNCHANGED <<serialized, jobs, byte_stream, received>>
    /\ UNCHANGED <<closed, pos, conn, pc, start, packet_type, buffer, index, length,
                   packet, result>>
    /\ UNCHANGED codecVars

\* a write of the loop fails: `?` returns the error, whatever was written
\* stays written, and the connection is over
SendWriteError(t) ==
    /\ spc[t] = "write"
    /\ send_result' = [send_result EXCEPT ![t] = "err"]
    /\ spc' = [spc EXCEPT ![t] = "stopped"]
    /\ closed' = TRUE
    /\ UNCHANGED <<serialized, jobs, sent_n, byte_stream, written, shorts, emitted,
                   owner, received>>
    /\ UNCHANGED <<stream, pos, conn, pc, start, packet_type, buffer, index, length,
                   packet, result>>
    /\ UNCHANGED codecVars

\* loop { match Protocol::recv(&stream) { Ok(packet) => sender.send(packet), Err(e) => .. } }
RecvLoop ==
    /\ pc = "done"
    /\ received' = IF result.ok THEN Append(received, result.variant) ELSE received
    /\ pc' = "recv"
    /\ start' = pos
    /\ packet_type' = "DEFAULT"
    /\ buffer' = <<>>
    /\ index' = <<0, 0>>
    /\ length' = 0
    /\ packet' = NoPacket
    /\ result' = NoResult
    /\ UNCHANGED <<stream, closed, pos, conn>>
    /\ UNCHANGED <<serialized, jobs, sent_n, spc, byte_stream, written, shorts,
                   send_result, emitted, owner>>
    /\ UNCHANGED codecVars

InitSend ==
    /\ stream = <<>>
    /\ closed = FALSE
    /\ pos = 0
    /\ conn = "c1"
    /\ pc = "recv"
    /\ start = 0
    /\ packet_type = "DEFAULT"
    /\ buffer = <<>>
    /\ index = <<0, 0>>
    /\ length = 0
    /\ packet = NoPacket
    /\ result = NoResult
    /\ cpc = "off" /\ value = NoValue /\ bytes = <<>> /\ decoded = NoValue
    /\ reencoded = <<>>
    /\ serialized \in BOOLEAN
    /\ jobs \in JobLists
    /\ sent_n = [t \in Senders |-> 0]
    /\ spc = [t \in Senders |-> IF jobs[t] = <<>> THEN "stopped" ELSE "idle"]
    /\ byte_stream = [t \in Senders |-> <<>>]
    /\ written = [t \in Senders |-> 0]
    /\ shorts = [t \in Senders |-> 0]
    /\ send_result = [t \in Senders |-> "none"]
    /\ emitted = [t \in Senders |-> <<>>]
    /\ owner = <<>>
    /\ received = <<>>

NextSend ==
    \/ \E t \in Senders : SendSerialize(t)
    \/ \E t \in Senders : SendWrite(t)
    \/ \E t \in Senders : SendWriteError(t)
    \/ RecvReadTag
    \/ RecvReadInto
    \/ RecvReadPrefix
    \/ RecvReadDesc
    \/ RecvLoop

SpecSend == InitSend /\ [][NextSend]_vars

-----------------------------------------------------------------------------
(* Claims about the codecs (checked under SpecCodec)                       *)

\* every text/name field of payload c fits within its declared width
FitsWidths(v, c) ==
    CASE v = "Message" -> Len(c.recipient) <= 32 /\ Len(c.sender) <= 30
      [] v \in {"PVPFight", "Loot"} -> Len(c.target_name) <= 32
      [] v \in {"Room", "Connection"} -> Len(c.room_name) <= 32
      [] v = "Character" -> Len(c.name) <= 32
      [] OTHER -> TRUE

\* payloads a and b of variant v agree in every field serialize emits
\* (a Character's author is not emitted)
SameEncodedFields(v, a, b) ==
    IF v = "Character" THEN [a EXCEPT !.author = NoAuthor] = [b EXCEPT !.author = NoAuthor]
    ELSE a = b

\* C1: round-trip law.  For every message kind and every payload whose
\* text/name fields fit within their declared widths, deserialize of the frame
\* built from serialize(value), with the same kind, returns a payload equal to
\* value in every encoded field.
C1_RoundTripLaw ==
    (cpc = "decoded" /\ value # NoValue /\ FitsWidths(value.variant, value.content))
        => SameEncodedFields(value.variant, decoded.content, value.content)

\* C2: narration round trip.  Serializing a PktMessage with narration = true
\* and a sender of at most 30 bytes, then deserializing the 66+len byte body,
\* yields narration = true and the original sender without the marker.
C2_NarrationRoundTrip ==
    (cpc = "decoded" /\ value.variant = "Message" /\ value.content.narration
        /\ Len(value.content.sender) <= 30)
        => /\ Len(bytes) = 1 + 66 + Len(value.content.message)
           /\ decoded.content.narration
           /\ decoded.content.sender = value.content.sender

\* C3: Message decode sets narration exactly when bytes 30 and 31 of the sender
\* field (body offsets 64 and 65) are 0x00 0x01, whatever the first 30 sender
\* bytes are, and in that case the sender is the first 30 bytes NUL-truncated.
C3_NarrationIffMarker ==
    (cpc = "decoded" /\ decoded.variant = "Message")
        => LET body == SliceFrom(bytes, 1)
               marked == At(body, 64) = 0 /\ At(body, 65) = 1
           IN  /\ decoded.content.narration <=> marked
               /\ marked => decoded.content.sender = name_from(Slice(body, 34, 64))

\* a fixed-width name field: valid UTF-8, and only NUL after its first NUL
NameFieldOk(f) ==
    /\ IsUtf8(f)
    /\ \A i \in 1..Len(f) : f[i] = 0 => \A j \in i..Len(f) : f[j] = 0

\* the 32-byte sender field: a padded name, or a padded 30-byte name followed
\* by the narration marker
SenderFieldOk(f) ==
    \/ NameFieldOk(f)
    \/ NameFieldOk(SubSeq(f, 1, 30)) /\ SubSeq(f, 31, 32) = <<0, 1>>

\* the length field at body offsets (lo, hi) equals the number of bytes after
\* the prefix, and those bytes are valid UTF-8
TailOk(body, prefix, lo, hi) ==
    /\ Len(body) >= prefix
    /\ At(body, lo) + 256 * At(body, hi) = Len(body) - prefix
    /\ IsUtf8(SliceFrom(body, prefix))

\* a conformant wire frame, by the wire table
Conformant(frame) ==
    LET tag == frame[1]
        body == SliceFrom(frame, 1)
    IN  CASE tag = 1 -> /\ TailOk(body, 66, 0, 1)
                        /\ NameFieldOk(Slice(body, 2, 34))
                        /\ SenderFieldOk(Slice(body, 34, 66))
          [] tag = 2 -> Len(body) = 2
          [] tag \in {3, 6, 12} -> Len(body) = 0
          [] tag \in {4, 5} -> Len(body) = 32 /\ NameFieldOk(body)
          [] tag = 7 -> TailOk(body, 3, 1, 2) /\ At(body, 0) <= 8
          [] tag = 8 -> Len(body) = 1
          [] tag \in {9, 13} -> TailOk(body, 36, 34, 35) /\ NameFieldOk(Slice(body, 2, 34))
          [] tag = 10 -> /\ TailOk(body, 47, 45, 46)
                         /\ NameFieldOk(Slice(body, 0, 32))
                         /\ At(body, 32) % 8 = 0
          [] tag = 11 -> TailOk(body, 6, 4, 5)
          [] tag = 14 -> Len(body) >= 4 /\ At(body, 2) + 256 * At(body, 3) = Len(body) - 4
          [] OTHER -> FALSE

\* C4: for every kind and every conformant wire frame of that kind,
\* serialize(deserialize(body)) reproduces the frame bytes exactly, tag included.
C4_ReencodeExact ==
    (cpc = "reencoded" /\ value = NoValue /\ Conformant(bytes)) => reencoded = bytes

-----------------------------------------------------------------------------
(* Claims about Protocol::recv (checked under Spec)                        *)

\* the tag byte of the frame the current recv call began at
Tag == stream[start + 1]

\* the current recv call has consumed its tag byte
TagRead == pos > start

\* the wire table: body size of the fixed-body kinds, by tag
TableFixed(tag) ==
    CASE tag = 2 -> 2
      [] tag = 4 -> 32
      [] tag = 5 -> 32
      [] tag = 8 -> 1

\* the wire table: prefix size of the extended kinds, by tag
TablePrefix(tag) ==
    CASE tag = 1 -> 66
      [] tag = 7 -> 3
      [] tag = 9 -> 36
      [] tag = 10 -> 47
      [] tag = 11 -> 6
      [] tag = 13 -> 36
      [] tag = 14 -> 4

\* the wire table: offsets of the length field of the extended kinds, by tag
TableOffsets(tag) ==
    CASE tag = 1 -> <<0, 1>>
      [] tag = 7 -> <<1, 2>>
      [] tag = 9 -> <<34, 35>>
      [] tag = 10 -> <<45, 46>>
      [] tag = 11 -> <<4, 5>>
      [] tag = 13 -> <<34, 35>>
      [] tag = 14 -> <<2, 3>>

FixedTags == {2, 4, 5, 8}
ExtendedTags == {1, 7, 9, 10, 11, 13, 14}
TagOnlyTags == {3, 6, 12}

\* the bytes of the stream after the tag of the current frame
AfterTag == SubSeq(stream, start + 2, Len(stream))

\* the length field of the current extended frame, read from the stream
WireLength ==
    At(AfterTag, TableOffsets(Tag)[1]) + 256 * At(AfterTag, TableOffsets(Tag)[2])

\* number of body bytes the current frame needs, as far as the stream tells
BodyNeeded ==
    IF Tag \in FixedTags THEN TableFixed(Tag)
    ELSE IF Len(AfterTag) < TablePrefix(Tag) THEN TablePrefix(Tag)
    ELSE TablePrefix(Tag) + WireLength

\* C5: recv on a tag byte that resolves to DEFAULT (0 or 15..255) fails with
\* Unsupported and returns no payload, and no other failure of recv (a closed
\* or failing transport) has that error kind.
C5_UnsupportedTag ==
    pc = "done" =>
        /\ (TagRead /\ (Tag = 0 \/ Tag >= 15)) => result = Err("Unsupported")
        /\ result.err = "Unsupported" =>
               /\ TagRead /\ (Tag = 0 \/ Tag >= 15)
               /\ ~result.ok /\ result.variant = "None" /\ packet = NoPacket

C5_Witness ==
    pc = "done" /\ TagRead /\ Tag = 255 /\ result.err = "Unsupported" /\ pos = start + 1

\* C6: when the first read of recv yields 0 bytes (the peer has closed and no
\* byte is left), recv fails with UnexpectedEof, not with Unsupported, although
\* the untouched tag buffer resolves to DEFAULT.
C6_ClosedIsEof ==
    [][(pc = "recv" /\ closed /\ Available = 0)
           => (pc' = "done" /\ result' = Err("UnexpectedEof") /\ packet_type' = "DEFAULT"
               /\ pos' = pos)]_vars

C6_Witness ==
    pc = "done" /\ closed /\ pos = start /\ Available = 0 /\ packet_type = "DEFAULT"
        /\ result = Err("UnexpectedEof")

\* C7: if the stream ends before the fixed body, the extended prefix or the L
\* trailing bytes are all there, recv returns UnexpectedEof and no Protocol
\* value, and no decoder is handed a body shorter than its kind requires.
C7_ShortRead ==
    /\ (pc = "done" /\ TagRead /\ Tag \in FixedTags \cup ExtendedTags
            /\ Len(AfterTag) < BodyNeeded)
           => /\ result = Err("UnexpectedEof")
              /\ packet = NoPacket
    /\ packet.some =>
           LET tag == PktType_into_u8(packet.packet_type)
           IN  IF tag \in FixedTags THEN Len(packet.body) = TableFixed(tag)
               ELSE Len(packet.body) >= TablePrefix(tag)

C7_Witness ==
    /\ pc = "done" /\ closed /\ TagRead /\ Tag = 9 /\ Len(buffer) = 36 /\ length = 2
    /\ Len(AfterTag) = 37 /\ result = Err("UnexpectedEof") /\ packet = NoPacket

\* C8: for every non-DEFAULT tag recv reads the body by the wire table: the
\* fixed-body kinds read exactly N bytes (ChangeRoom 2, PvpFight 32, Loot 32,
\* Accept 1), the extended kinds read exactly the prefix (Message 66, Error 3,
\* Room 36, Character 47, Game 6, Connection 36, Version 4) and take the length
\* from the kind's offset pair.
C8_WireTable ==
    /\ (pc = "done" /\ result.ok /\ TagRead /\ Tag \in FixedTags)
           => /\ pos - start = 1 + TableFixed(Tag)
              /\ packet.body = SubSeq(AfterTag, 1, TableFixed(Tag))
    /\ (pc = "read_desc")
           => /\ Tag \in ExtendedTags
              /\ pos - start = 1 + TablePrefix(Tag)
              /\ buffer = SubSeq(AfterTag, 1, TablePrefix(Tag))
              /\ length = WireLength
    /\ (pc \in {"read_into", "read_extended"} /\ pos = start + 1)
           => Len(buffer) = (IF Tag \in FixedTags THEN TableFixed(Tag) ELSE TablePrefix(Tag))

C8_Witness ==
    pc = "read_desc" /\ Tag = 10 /\ length = 2 /\ pos - start = 48

\* the variable-length field of a decoded extended payload
VarField(v, c) ==
    CASE v \in {"Message", "Error"} -> c.message
      [] v \in {"Room", "Connection", "Character", "Game"} -> c.description
      [] v = "Version" -> c.extensions.v

\* C9: in read_extended the trailing length is L = prefix[lo] + 256 * prefix[hi];
\* exactly L further bytes are consumed and appended, so the decoder's body has
\* length prefix + L; L = 0 consumes nothing more and yields an empty variable
\* field.
C9_ExtendedLength ==
    (pc = "done" /\ result.ok /\ TagRead /\ Tag \in ExtendedTags)
        => LET P == TablePrefix(Tag)
               L == WireLength
           IN  /\ L \in 0..65535
               /\ pos - start = 1 + P + L
               /\ Len(packet.body) = P + L
               /\ packet.body = SubSeq(AfterTag, 1, P + L)
               /\ L = 0 => VarField(result.variant, result.content) = <<>>

C9_Witness ==
    pc = "done" /\ result.ok /\ TagRead /\ Tag = 11 /\ length > 255 /\ Len(packet.body) = 6 + length

\* C10: for the tag-only kinds Fight (3), Start (6) and Leave (12) recv consumes
\* exactly the tag byte, reads no body, and returns the variant whose payload
\* carries that kind's tag.
C10_TagOnly ==
    (pc = "done" /\ TagRead /\ Tag \in TagOnlyTags)
        => /\ pos = start + 1
           /\ packet = NoPacket /\ buffer = <<>>
           /\ result.ok
           /\ result.variant = (CASE Tag = 3 -> "Fight" [] Tag = 6 -> "Start"
                                  [] Tag = 12 -> "Leave")
           /\ PktType_into_u8(result.content.packet_type) = Tag

C10_Witness ==
    pc = "done" /\ TagRead /\ Tag = 12 /\ result.variant = "Leave" /\ Available > 0

-----------------------------------------------------------------------------
(* Claims about Protocol::send (checked under SpecSend)                    *)

\* the frame a thread's k-th send call writes
FrameId(t, k) == <<t, k>>

\* the positions of stream written by frame f
PositionsOf(f) == {i \in 1..Len(owner) : owner[i] = f}

\* the connection has received exactly the bytes bs for frame f, once, in order
WireHolds(f, bs) ==
    LET I == PositionsOf(f)
    IN  /\ Cardinality(I) = Len(bs)
        /\ \A i \in I : stream[i] = bs[Cardinality({j \in I : j <= i})]

\* the serialized form of the k-th payload of thread t
FrameBytes(t, k) == serialize(jobs[t][k].variant, jobs[t][k].content)

\* C11: send serializes the whole payload into byte_stream before the first
\* byte reaches the connection and then writes that buffer with one write_all:
\* until the first write nothing of the frame is on the connection, while
\* writing the connection holds a prefix of the buffer, and after Ok(()) the
\* connection holds exactly the serialized bytes, once, in order.
C11_SendWholeFrame ==
    \A t \in Senders :
        /\ (spc[t] # "write" \/ written[t] = 0)
               => PositionsOf(FrameId(t, sent_n[t] + 1)) = {} \/ send_result[t] = "err"
        /\ spc[t] = "write"
               => /\ byte_stream[t] = FrameBytes(t, sent_n[t] + 1)
                  /\ written[t] < Len(byte_stream[t])
                  /\ emitted[t][sent_n[t] + 1] = SubSeq(byte_stream[t], 1, written[t])
                  /\ WireHolds(FrameId(t, sent_n[t] + 1), emitted[t][sent_n[t] + 1])
        /\ \A k \in 1..sent_n[t] :
               /\ emitted[t][k] = FrameBytes(t, k)
               /\ WireHolds(FrameId(t, k), FrameBytes(t, k))

C11_Witness ==
    \E t \in Senders :
        /\ sent_n[t] = 2 /\ send_result[t] = "ok" /\ shorts[t] > 0
        /\ jobs[t][2].variant = "Error"
        /\ WireHolds(FrameId(t, 2), FrameBytes(t, 2))

\* the positions of stream where the writing frame changes
RunStarts == {i \in 1..Len(owner) : i = 1 \/ owner[i - 1] # owner[i]}

\* the frames that have bytes on the connection
FramesOnWire == {owner[i] : i \in 1..Len(owner)}

\* the bytes of every frame are contiguous on the connection
Contiguous == Cardinality(RunStarts) = Cardinality(FramesOnWire)

\* C12: send takes no lock.  When the caller serializes its send calls the
\* bytes of every frame are contiguous on the connection; the witness is the
\* state the claim says is reachable otherwise: two send calls run at once and
\* the bytes of a frame are split by bytes of the other.
C12_SerializedContiguous ==
    serialized => Contiguous

C12_Witness ==
    /\ ~serialized
    /\ ~Contiguous
    /\ \E i, j, k \in 1..Len(owner) :
           /\ i < j /\ j < k
           /\ owner[i] = owner[k] /\ owner[j] # owner[i] /\ owner[j][1] # owner[i][1]

\* every length field of the payload is the byte length of its variable field
LengthsMatch(v, c) ==
    CASE v \in {"Message", "Error"} -> c.message_len = Len(c.message)
      [] v \in {"Room", "Connection", "Character", "Game"} ->
             c.description_len = Len(c.description)
      [] v = "Version" -> c.extensions_len = Len(c.extensions.v)
      [] OTHER -> TRUE

\* every payload given to the senders can be framed
JobsConformant ==
    \A t \in Senders : \A k \in 1..Len(jobs[t]) :
        /\ FitsWidths(jobs[t][k].variant, jobs[t][k].content)
        /\ LengthsMatch(jobs[t][k].variant, jobs[t][k].content)

\* the i-th frame on the connection, in the order the frames began
WireFrame(i) ==
    owner[CHOOSE p \in RunStarts : Cardinality({q \in RunStarts : q <= p}) = i]

\* the frame is on the connection in full
Complete(f) == Cardinality(PositionsOf(f)) = Len(FrameBytes(f[1], f[2]))

\* the position just behind the first i frames on the connection
EndOfFrame(i) ==
    IF i = 0 THEN 0
    ELSE CHOOSE p \in PositionsOf(WireFrame(i)) : \A q \in PositionsOf(WireFrame(i)) : q <= p

\* C13: when the send calls are serialized and every payload has names within
\* their widths and length fields equal to the lengths of its variable fields,
\* the recv loop on the other end hands on payloads of the kinds sent, in the
\* order sent, and after each successful recv the read position is at the first
\* byte of the next frame.
C13_LoopInOrder ==
    (serialized /\ JobsConformant) =>
        /\ Len(received) <= Cardinality(FramesOnWire)
        /\ \A i \in 1..Len(received) :
               /\ Complete(WireFrame(i))
               /\ received[i] = jobs[WireFrame(i)[1]][WireFrame(i)[2]].variant
        /\ (pc = "done" /\ result.ok) =>
               LET n == Len(received) + 1
               IN  /\ n <= Cardinality(FramesOnWire)
                   /\ start = EndOfFrame(n - 1)
                   /\ Complete(WireFrame(n))
                   /\ result.variant = jobs[WireFrame(n)[1]][WireFrame(n)[2]].variant
                   /\ pos = EndOfFrame(n)
        /\ (pc = "done" /\ ~result.ok) => result.err = "UnexpectedEof" /\ closed

C13_Witness ==
    /\ serialized /\ JobsConformant
    /\ received = <<"Version", "Fight", "Error">>
    /\ pc = "recv" /\ pos = Len(stream) /\ pos = 13
    /\ \A t \in Senders : sent_n[t] = Len(jobs[t]) /\ sent_n[t] > 0

-----------------------------------------------------------------------------
(* More claims about Protocol::recv (checked under Spec)                   *)

\* how far a recv call has come
Rank(p) ==
    CASE p = "recv" -> 0
      [] p \in {"read_into", "read_extended"} -> 1
      [] p = "read_desc" -> 2
      [] p = "done" -> 3

\* every index recv and the decoders use lies inside the body recv assembled
InBounds ==
    /\ pc \in {"read_into", "read_extended", "read_desc"}
           => /\ Len(buffer) >= reads_below(VariantOf(packet_type))
              /\ packet_type \in ExtendedKinds
                     => index[1] < Len(buffer) /\ index[2] < Len(buffer)
    /\ packet.some
           => /\ reads_below(VariantOf(packet.packet_type)) <= Len(packet.body)
              /\ reads_below(VariantOf(packet.packet_type))
                     <= (IF PktType_into_u8(packet.packet_type) \in FixedTags
                         THEN TableFixed(PktType_into_u8(packet.packet_type))
                         ELSE TablePrefix(PktType_into_u8(packet.packet_type)))
    /\ pc = "done"
           => \/ result.ok /\ result.variant \in VariantSet
              \/ ~result.ok
                 /\ result.err \in {"UnexpectedEof", "Unsupported"} \cup OsErrorKinds

\* a recv call moves forward with every read and is over after at most three
Forward ==
    \/ Rank(pc') > Rank(pc)
    \/ pc = "done" /\ pc' = "recv"
    \/ pc' = pc /\ result' = result /\ pos' = pos

\* C14: whatever bytes the stream holds (any tag, any length field, invalid
\* UTF-8, cut anywhere), recv ends after at most three reads with Ok(payload)
\* or Err, and recv and the decoder it invokes only index inside the body recv
\* assembled: every fixed offset a decoder reads is below the prefix length
\* recv read for the kind.
C14_NeverOutOfBounds == []InBounds /\ [][Forward]_vars

C14_Witness ==
    /\ pc = "done" /\ result.ok /\ TagRead /\ Tag = 10
    /\ Len(packet.body) = 49 /\ packet.body[48] = 255 /\ packet.body[49] = 12
    /\ result.content.description = REPLACEMENT \o <<12>>

-----------------------------------------------------------------------------
(* More claims about the codecs (checked under SpecCodec)                  *)

\* C15: PktVersion::deserialize yields extensions_len = 0 and extensions = None
\* whatever length bytes and extension bytes the body holds, while
\* PktVersion::serialize emits the extensions_len and the extension bytes the
\* caller supplied.
C15_VersionExtensions ==
    /\ (cpc \in {"decoded", "reencoded"} /\ decoded.variant = "Version")
           => /\ decoded.content.extensions_len = 0
              /\ decoded.content.extensions = None
              /\ decoded.content.major_rev = bytes[2]
              /\ decoded.content.minor_rev = bytes[3]
    /\ (cpc # "start" /\ value.variant = "Version")
           => bytes = <<14, value.content.major_rev, value.content.minor_rev,
                        value.content.extensions_len % 256,
                        value.content.extensions_len \div 256>>
                      \o (IF value.content.extensions.is_some
                          THEN value.content.extensions.v ELSE <<>>)

C15_Witness ==
    /\ cpc = "decoded" /\ decoded.variant = "Version"
    /\ value.variant = "Version" /\ value.content.extensions_len = 2
    /\ value.content.extensions = Some(<<1, 0>>)
    /\ bytes = <<14, 255, 3, 2, 0, 1, 0>>
    /\ decoded.content.extensions_len = 0 /\ decoded.content.extensions = None

-----------------------------------------------------------------------------
(* Claims about the registries and the flags (checked under SpecRegistry)  *)

\* the kinds in declaration order, by their byte
KindOfByte ==
    <<"MESSAGE", "CHANGEROOM", "FIGHT", "PVPFIGHT", "LOOT", "START", "ERROR",
      "ACCEPT", "ROOM", "CHARACTER", "GAME", "LEAVE", "CONNECTION", "VERSION">>

\* C16: the PktType mapping is total and lossless: PktType::from(u8::from(k)) = k
\* for each of the 15 kinds, u8::from maps the kinds to 0..14 in declaration
\* order, and PktType::from(b) = DEFAULT for every byte b in 15..255.
C16_PktTypeMapping ==
    /\ cpc = "kind_back"
           => /\ decoded.content.packet_type = value.content.packet_type
              /\ bytes[1] \in 0..14
              /\ value.content.packet_type = "DEFAULT" => bytes[1] = 0
              /\ value.content.packet_type # "DEFAULT"
                     => KindOfByte[bytes[1]] = value.content.packet_type
    /\ cpc = "pkt_type"
           => /\ decoded.content.packet_type \in PktType
              /\ bytes[1] >= 15 => decoded.content.packet_type = "DEFAULT"
              /\ bytes[1] \in 1..14 => /\ decoded.content.packet_type = KindOfByte[bytes[1]]
                                       /\ reencoded = bytes

C16_Witness ==
    /\ cpc = "pkt_type" /\ bytes = <<255>> /\ decoded.content.packet_type = "DEFAULT"
    /\ reencoded = <<0>>

\* C17: the LurkError mapping is total and lossless: LurkError::from(u8::from(e))
\* = e for each of the 9 codes, LurkError::from(b) = OTHER for every byte b >= 9,
\* and so an Error frame whose code byte is >= 9 decodes to the code OTHER.
C17_LurkErrorMapping ==
    /\ cpc = "code_back"
           => /\ decoded.content.error = value.content.error
              /\ bytes[1] \in 0..8
    /\ cpc = "lurk_error"
           => /\ decoded.content.error \in LurkError
              /\ bytes[1] >= 9 => decoded.content.error = "OTHER"
              /\ bytes[1] <= 8 => reencoded = bytes
    /\ (cpc = "error_decoded" /\ bytes[2] >= 9)
           => /\ decoded.content.error = "OTHER"
              /\ decoded.content.message = <<65>>

C17_Witness ==
    /\ cpc = "error_decoded" /\ bytes[2] = 9 /\ decoded.content.error = "OTHER"
    /\ decoded.content.message_len = 1

-----------------------------------------------------------------------------
(* Claims about the decoded fields (checked under SpecCodec)               *)

\* the body handed to the decoder
Body == SliceFrom(bytes, 1)

\* C19: PktCharacter::deserialize masks away bits 0..2 of the flags byte (the
\* decoded flags are the wire byte AND 0xF8), and serializing a decoded
\* Character emits a flags byte whose bits 0..2 are zero.
C19_FlagsMasked ==
    (cpc \in {"decoded", "reencoded"} /\ decoded.variant = "Character")
        => /\ decoded.content.flags = At(Body, 32) - (At(Body, 32) % 8)
           /\ cpc = "reencoded"
                  => /\ reencoded[34] % 8 = 0
                     /\ reencoded[34] = bytes[34] - (bytes[34] % 8)

C19_Witness ==
    /\ cpc = "reencoded" /\ decoded.variant = "Character"
    /\ bytes[34] = 199 /\ decoded.content.flags = 192 /\ reencoded[34] = 192

\* the bytes of a field before its first NUL
BeforeNul(f) == SubSeq(f, 1, (IF \E i \in 1..Len(f) : f[i] = 0
                              THEN (CHOOSE i \in 1..Len(f) :
                                        f[i] = 0 /\ \A j \in 1..(i - 1) : f[j] # 0)
                              ELSE Len(f) + 1) - 1)

\* the value a fixed-width text field decodes to under C-string semantics: the
\* bytes before the first NUL, as text
CString(f) == from_utf8_lossy(BeforeNul(f))

TextVariants == {"Message", "Error", "Room", "Character", "Game", "Connection"}

\* the bytes of the body after the last fixed field of variant v
TailOf(v) == SliceFrom(Body, TablePrefix(PktType_into_u8(KindOf(v))))

\* C21: for every extended text kind (Message, Error, Room, Character, Game,
\* Connection) the decoded variable text is the whole tail of the body after the
\* last fixed field, NUL bytes inside it included: the tail as text, and the
\* very bytes of the tail when they are valid UTF-8.
C21_WholeTail ==
    (cpc \in {"decoded", "reencoded"} /\ decoded.variant \in TextVariants)
        => /\ VarField(decoded.variant, decoded.content)
                  = from_utf8_lossy(TailOf(decoded.variant))
           /\ IsUtf8(TailOf(decoded.variant))
                  => VarField(decoded.variant, decoded.content) = TailOf(decoded.variant)

-----------------------------------------------------------------------------
(* Claims about the encoded fields (checked under SpecCodec)               *)

\* the sender field of the Message frame in bytes
SenderField == Slice(Body, 34, 66)

\* a Message with narration = false has been serialized
PlainMessageEncoded ==
    /\ cpc \in {"encoded", "decoded", "reencoded"}
    /\ value.variant = "Message" /\ ~value.content.narration

\* C22 as stated: Message encode with narration = false pads the sender to the
\* full 32 bytes, so for every sender of at most 32 bytes the sender field is
\* the sender's bytes followed by 0x00 padding, bytes 31 and 32 included.
C22_SenderFullWidth ==
    (PlainMessageEncoded /\ Len(value.content.sender) <= 32)
        => SenderField = value.content.sender \o Zeros(32 - Len(value.content.sender))

\* C22 as amended: Message encode with narration = false first cuts or pads the
\* sender to 30 bytes and then pads it to 32: the first 30 bytes of the sender
\* field are the sender's first 30 bytes, 0x00 where it has none, and bytes 31
\* and 32 of the field are 0x00 whatever the sender is; for every sender of at
\* most 30 bytes the field is the sender's bytes followed by 0x00 padding.
C22_SenderPadded ==
    PlainMessageEncoded
        => /\ Len(SenderField) = 32
           /\ \A i \in 1..30 :
                  SenderField[i] = (IF i <= Len(value.content.sender)
                                    THEN value.content.sender[i] ELSE 0)
           /\ SenderField[31] = 0 /\ SenderField[32] = 0
           /\ Len(value.content.sender) <= 30
                  => SenderField = value.content.sender
                                       \o Zeros(32 - Len(value.content.sender))

C22_Witness ==
    /\ PlainMessageEncoded /\ cpc = "encoded"
    /\ Len(value.content.sender) = 32
    /\ SubSeq(SenderField, 1, 30) = SubSeq(value.content.sender, 1, 30)
    /\ SubSeq(SenderField, 31, 32) = <<0, 0>>

\* the variants whose payload has a 32-byte name field
NamedVariants == {"Message", "PVPFight", "Loot", "Room", "Connection", "Character"}

\* the name a payload of variant v puts in that field
NameIn(v, c) ==
    CASE v = "Message" -> c.recipient
      [] v \in {"PVPFight", "Loot"} -> c.target_name
      [] v \in {"Room", "Connection"} -> c.room_name
      [] v = "Character" -> c.name

\* the offset of the field in the body
NameOffset(v) == IF v \in {"Message", "Room", "Connection"} THEN 2 ELSE 0

\* the number of body bytes of a frame of variant v outside its variable field
FixedPart(v) ==
    IF v \in {"PVPFight", "Loot"} THEN 32 ELSE TablePrefix(PktType_into_u8(KindOf(v)))

\* the number of bytes of the variable field a payload of variant v emits
VarLen(v, c) == IF v \in {"PVPFight", "Loot"} THEN 0 ELSE Len(VarField(v, c))

\* a payload with a name field has been serialized
NamedEncoded ==
    cpc \in {"encoded", "decoded", "reencoded"} /\ value.variant \in NamedVariants

\* C23 as stated: encode right-pads fixed-width text with 0x00 to the declared
\* width and does not clamp: a name longer than the width is emitted in full.
C23_NoClamp ==
    NamedEncoded =>
        LET n == NameIn(value.variant, value.content)
            o == NameOffset(value.variant)
            w == IF Len(n) > 32 THEN Len(n) ELSE 32
        IN  /\ Len(Body) >= o + w
            /\ Slice(Body, o, o + w) = n \o Zeros(w - Len(n))

\* C23 as amended: encode right-pads fixed-width text with 0x00 to the declared
\* width and cuts a longer name to the width: the field holds exactly 32 bytes,
\* the first 32 bytes of the name and 0x00 where the name has fewer, and the
\* fields behind it stay at their offsets.
C23_PadAndCut ==
    NamedEncoded =>
        LET v == value.variant
            n == NameIn(v, value.content)
            o == NameOffset(v)
        IN  /\ Len(Body) = FixedPart(v) + VarLen(v, value.content)
            /\ \A i \in 1..32 : At(Body, o + i - 1) = (IF i <= Len(n) THEN n[i] ELSE 0)

C23_Witness ==
    /\ NamedEncoded /\ cpc = "encoded" /\ value.variant = "Loot"
    /\ Len(value.content.target_name) = 33
    /\ Len(bytes) = 33
    /\ Body = SubSeq(value.content.target_name, 1, 32)

-----------------------------------------------------------------------------
(* More claims about the registries (checked under SpecRegistry)           *)

\* C24: Accept carries a raw kind byte: PktAccept::new(k) stores u8::from(k),
\* and for every byte b, a defined kind or not, decoding the frame [0x08, b]
\* yields accept_type = b and serializing the result gives [0x08, b] again.
C24_AcceptRawByte ==
    /\ cpc = "accept_new"
           => /\ decoded.content.packet_type = "ACCEPT"
              /\ decoded.content.accept_type \in 0..14
              /\ value.content.packet_type = "DEFAULT" => decoded.content.accept_type = 0
              /\ value.content.packet_type # "DEFAULT"
                     => KindOfByte[decoded.content.accept_type] = value.content.packet_type
              /\ bytes = <<8, decoded.content.accept_type>>
    /\ cpc = "accept_decoded"
           => /\ decoded.content.packet_type = "ACCEPT"
              /\ decoded.content.accept_type = bytes[1]
              /\ reencoded = <<8, bytes[1]>>

C24_Witness ==
    /\ cpc = "accept_decoded" /\ bytes = <<255>>
    /\ decoded.content.accept_type = 255 /\ reencoded = <<8, 255>>

-----------------------------------------------------------------------------
(* Claims about what recv returns (checked under Spec)                     *)

\* the Protocol variant of each tag, by the wire table
VariantOfTag ==
    <<"Message", "ChangeRoom", "Fight", "PVPFight", "Loot", "Start", "Error",
      "Accept", "Room", "Character", "Game", "Leave", "Connection", "Version">>

\* C25: on success recv returns the Protocol variant that corresponds to the tag
\* byte read (tag t in 1..14 gives the variant of kind t), the payload's
\* packet_type is that kind, and the connection handle inside the variant is the
\* handle recv was called with.
C25_VariantOfTag ==
    (pc = "done" /\ result.ok)
        => /\ TagRead
           /\ Tag \in 1..14
           /\ result.variant = VariantOfTag[Tag]
           /\ result.content.packet_type = KindOfByte[Tag]
           /\ result.author = conn

C25_Witness ==
    /\ pc = "done" /\ result.ok /\ TagRead /\ Tag = 13
    /\ result.variant = "Connection" /\ result.content.packet_type = "CONNECTION"
    /\ conn = "c2" /\ result.author = "c2"

-----------------------------------------------------------------------------
(* Claims about PktCharacter (checked under SpecCodec)                     *)

\* the Character payloads a and b differ in their author and in nothing else
DifferOnlyInAuthor(a, b) ==
    /\ a.author # b.author
    /\ [a EXCEPT !.author = NoAuthor] = [b EXCEPT !.author = NoAuthor]

\* C26: Character decode always sets author to the connection handle of the
\* frame it was decoded from, and Character encode never emits the author: the
\* frame has a byte for every other field and none more, and two Character
\* payloads that differ only in author serialize to identical bytes.
C26_AuthorNotEncoded ==
    /\ (cpc \in {"decoded", "reencoded"} /\ decoded.variant = "Character")
           => /\ decoded.content.author = conn
              /\ decoded.content.author # NoAuthor
    /\ (cpc \in {"encoded", "decoded", "reencoded"} /\ value.variant = "Character")
           => Len(bytes) = 1 + 32 + 1 + 7 * 2 + Len(value.content.description)
    /\ (cpc = "reencoded" /\ value.variant = "Character"
            /\ DifferOnlyInAuthor(value.content, decoded.content))
           => reencoded = bytes

C26_Witness ==
    /\ cpc = "reencoded" /\ value.variant = "Character"
    /\ value.content.author = "c2" /\ conn = "c1" /\ decoded.content.author = "c1"
    /\ DifferOnlyInAuthor(value.content, decoded.content)
    /\ reencoded = bytes

\* d is c with the server's starting values and every other field as it was
Defaulted(c, d) ==
    /\ d.health = 100 /\ d.gold = 0 /\ d.current_room = 0
    /\ d.flags = 128 + 64
    /\ d.author = c.author /\ d.packet_type = c.packet_type /\ d.name = c.name
    /\ d.attack = c.attack /\ d.defense = c.defense /\ d.regen = c.regen
    /\ d.description_len = c.description_len /\ d.description = c.description
    /\ DOMAIN d = DOMAIN c

\* C27: PktCharacter::with_defaults_from(c) returns a character with health =
\* 100, gold = 0, current_room = 0 and flags = CharacterFlags::reset() (ALIVE and
\* BATTLE), every other field (author, packet_type, name, attack, defense,
\* regen, description_len, description) equal to c's, and c itself is unchanged.
C27_WithDefaults ==
    [][cpc' = "defaults" => (value' = value /\ Defaulted(value.content, decoded'.content))]_vars

C27_Witness ==
    /\ cpc = "defaults"
    /\ value.content.health = -1 /\ value.content.gold = 258
    /\ value.content.current_room = 258 /\ value.content.flags = 128 + 64 + 32 + 16 + 8
    /\ value.content.author = "c2"
    /\ decoded.content.health = 100 /\ decoded.content.gold = 0
    /\ decoded.content.current_room = 0 /\ decoded.content.flags = 128 + 64
    /\ decoded.content.author = "c2" /\ decoded.content.regen = 65535

-----------------------------------------------------------------------------
(* Claims about the Version frame in recv (checked under Spec)             *)

\* the current recv call has returned the payload of a Version frame
VersionReturned == pc = "done" /\ result.ok /\ TagRead /\ Tag = 14

\* a Version frame is consumed whole and returned without its extensions
VersionConsumed ==
    VersionReturned
        => /\ pos = start + 1 + 4 + WireLength
           /\ result.variant = "Version"
           /\ result.content.extensions_len = 0
           /\ result.content.extensions = None
           /\ Len(packet.body) = 4 + WireLength

\* the recv call after a Version frame begins behind the frame's last byte
NextAfterVersion ==
    (VersionReturned /\ pc' = "recv") => start' = start + 1 + 4 + WireLength

\* C28: when a Version frame announces an extension length L, also a non-zero
\* one, recv consumes all 1 + 4 + L bytes of the frame before it returns the
\* payload, which has no extensions, so the next recv starts at the tag byte of
\* the next frame.
C28_VersionConsumed == []VersionConsumed /\ [][NextAfterVersion]_vars

C28_Witness ==
    /\ pc = "done" /\ result.ok /\ result.variant = "Leave"
    /\ start = 7 /\ pos = 8
    /\ SubSeq(stream, 1, 8) = <<14, 2, 3, 2, 0, 1, 0, 12>>

-----------------------------------------------------------------------------
(* Claims about relaying a received payload (checked under Spec)           *)

\* the frame Protocol::send writes for the payload the current recv call returned
Relayed == serialize(result.variant, result.content)

\* the length field of an extended frame f of tag t
LengthField(f, t) == f[TableOffsets(t)[1] + 2] + 256 * f[TableOffsets(t)[2] + 2]

\* C29: relay safety.  For every extended-kind payload a successful recv
\* returns, frames whose variable field held invalid UTF-8 or NUL bytes
\* included, sending the payload unchanged produces a frame whose length field
\* equals the number of variable-field bytes emitted, so that a peer's recv
\* consumes exactly that frame.
C29_RelaySafe ==
    (pc = "done" /\ result.ok /\ TagRead /\ Tag \in ExtendedTags)
        => /\ Relayed[1] = Tag
           /\ Len(Relayed) >= 1 + TablePrefix(Tag)
           /\ LengthField(Relayed, Tag) = Len(Relayed) - 1 - TablePrefix(Tag)

-----------------------------------------------------------------------------
(* Claims about the constructors (checked under SpecRegistry)              *)

\* a constructor has built a payload from the text in bytes
Constructed == cpc \in {"server", "narrator", "error_new"}

\* the number of message bytes in the frame the constructed payload serializes to
MessageBytesEmitted == Len(reencoded) - 1 - TablePrefix(reencoded[1])

\* C30: PktMessage::server, PktMessage::narrator and PktError::new set
\* message_len to the byte length of the message modulo 2^16: it is the byte
\* length for messages of at most 65535 bytes, and the frame the payload
\* serializes to has a length field equal to the number of message bytes it
\* carries exactly when the message is at most 65535 bytes long.
C30_MessageLenWraps ==
    Constructed =>
        LET n == Len(bytes)
            c == decoded.content
        IN  /\ c.message = bytes
            /\ c.message_len \in 0..65535
            /\ \E q \in 0..1 : n = q * 65536 + c.message_len
            /\ n <= 65535 => c.message_len = n
            /\ MessageBytesEmitted = n
            /\ (LengthField(reencoded, reencoded[1]) = MessageBytesEmitted) <=> (n <= 65535)
            /\ cpc = "server" => c.sender = <<83, 101, 114, 118, 101, 114>> /\ ~c.narration
            /\ cpc = "narrator" => c.narration
            /\ cpc = "error_new" => c.error = value.content.error

C30_Witness ==
    /\ cpc = "error_new" /\ Len(bytes) = 65536
    /\ decoded.content.message_len = 0
    /\ Len(reencoded) = 4 + 65536 /\ reencoded[3] = 0 /\ reencoded[4] = 0

====
